---- MODULE Spec2Model ----
(***************************************************************************)
(* A state-machine model of src/app.py: the unified sign-in, the two       *)
(* logout routes, the role gates, the auth audit log, and the employee     *)
(* task tracker with its admin task console.                               *)
(*                                                                         *)
(* Flask keeps the session in a signed cookie.  The variable session is    *)
(* the cookie carried by the request being handled: in SpecAuth one        *)
(* browser's cookie evolves through sign-in and logout; in SpecTask every  *)
(* request carries any cookie that signin can issue (IssuedSessions), so   *)
(* requests of different browsers interleave freely.                       *)
(*                                                                         *)
(* The handlers of SpecAuth, SpecTask, SpecActions, SpecActivity,          *)
(* SpecUpload and SpecProjects are atomic: one action is one request.      *)
(* SpecEnsure and SpecTxn follow ensure_auth_logs_table and the employee   *)
(* task transaction statement by statement, so that concurrent requests    *)
(* interleave between statements (variable workers).                       *)
(*                                                                         *)
(* Strings that the code normalises are sequences of tokens, " " being a   *)
(* whitespace character; None is 0 for ids and NoneStr for strings.        *)
(***************************************************************************)
EXTENDS Naturals, Sequences, FiniteSets

VARIABLES
    env,        \* ADMIN_USERNAME / ADMIN_PASSWORD as read by os.getenv
    users,      \* rows of the users table
    session,    \* the session cookie of the request being handled
    authlog,    \* rows of auth_logs, in insertion order
    tasks,      \* rows of the tasks table, by id (absent ids map to NoTask)
    nextTaskId, \* AUTO_INCREMENT counter of tasks
    timelog,    \* rows of task_time_logs, in insertion order
    now,        \* the value datetime.utcnow() returns next
    last,       \* the request handled last and the response it got
    started,    \* history: <<employee, task>> pairs of the successful starts
                \* on tasks that still exist
    admin_actions, \* rows of admin_actions, in insertion order
    rows,       \* rows of services, employees and tasks as the upload forms
                \* see them, by kind
    files,      \* the file.save calls into static/uploads, in call order
    workers,    \* the requests in flight when handlers interleave statement
                \* by statement: position, locals and uncommitted writes
    schema      \* the auth_logs table as the data dictionary has it

vars == <<env, users, session, authlog, tasks, nextTaskId, timelog, now, last, started, admin_actions, rows, files,
         workers, schema>>

----------------------------------------------------------------------------
(* Bounds of the model *)

MaxAuthLog == 2
MaxTimeLog == 2
MaxClock == 1
MaxTasks == 1
MaxActions == 1
MaxRows == 1
MaxFiles == 2

----------------------------------------------------------------------------
(* Strings *)

NoneStr == "None"

RECURSIVE lstrip(_)
lstrip(s) == IF s # <<>> /\ Head(s) = " " THEN lstrip(Tail(s)) ELSE s

RECURSIVE rstrip(_)
rstrip(s) == IF s # <<>> /\ s[Len(s)] = " " THEN rstrip(SubSeq(s, 1, Len(s) - 1)) ELSE s

\* str.strip()
strip(s) == rstrip(lstrip(s))

\* werkzeug.security: a hash verifies exactly the password it was made from
generate_password_hash(p) == <<"pbkdf2">> \o p

check_password_hash(h, p) == h = generate_password_hash(p)

----------------------------------------------------------------------------
(* Sessions *)

EmptySession ==
    [admin_logged_in |-> FALSE, user_id |-> 0, user_role |-> NoneStr, employee_id |-> 0]

\* session.clear(); session["admin_logged_in"] = True
AdminSession == [EmptySession EXCEPT !.admin_logged_in = TRUE]

\* session.clear(); session["user_id"], ["user_role"], ["employee_id"] = the row's
UserSession(u) ==
    [EmptySession EXCEPT !.user_id = u.id, !.user_role = u.role,
                         !.employee_id = u.employee_id]

----------------------------------------------------------------------------
(* Database outcomes: get_db_connection returns None ("no_conn"), a        *)
(* statement raises mysql.connector.Error ("error"), or all goes well.     *)

DbOutcomes == {"ok", "no_conn", "error"}

\* get_db_connection() returned a connection
get_db_connection(db) == db # "no_conn"

----------------------------------------------------------------------------
(* The request record: what the last request was and how it was answered   *)

\* a URL or endpoint: its route and the id in it (0 when it has none)
Url(route, id) == [route |-> route, id |-> id]

NoUrl == Url(NoneStr, 0)

NoRequest ==
    [seq |-> 0, op |-> "none", path |-> NoUrl, task_id |-> 0,
     username |-> <<>>, password |-> <<>>, next_url |-> NoUrl,
     gate |-> "none", db |-> "n/a", audit |-> "n/a",
     flash |-> NoneStr, target |-> NoUrl, next |-> NoUrl,
     status |-> 0, body |-> <<>>, args |-> <<>>]

Request(op) == [NoRequest EXCEPT !.seq = 1 - last.seq, !.op = op]

----------------------------------------------------------------------------
(* Auth audit log *)

AuthLogEntry(action, username, user_id, is_admin) ==
    [username |-> username, user_id |-> user_id,
     is_admin |-> IF is_admin THEN 1 ELSE 0, action |-> action]

NoAuthEvent == [action |-> "none"]

log_auth_event_drops(log, ev, db) == log

\* log_auth_event: the rows of auth_logs after the call.  No connection:
\* return; an Error in the INSERT: logged and swallowed; else one row.
log_auth_event(log, ev, db) ==
    IF ev.action = "none" THEN log
    ELSE IF ~get_db_connection(db) THEN log
    ELSE IF db = "error" THEN log
    ELSE Append(log, ev)

----------------------------------------------------------------------------
(* Sign-in *)

\* SELECT ... FROM users WHERE username=%s; fetchone()
LookupUser(tbl, username, db) ==
    IF db # "ok" THEN {}
    ELSE {u \in tbl : u.username = username}

\* "next_url or url_for(...)"
OrElse(next_url, dflt) == IF next_url = NoUrl THEN dflt ELSE next_url

signin_db_first(sess, tbl, e, form_username, form_password, next_url, db) ==
    LET username == strip(form_username)
        password == strip(form_password)
        found == LookupUser(tbl, username, db)
        good == {u \in found : u.is_active = 1 /\ check_password_hash(u.password_hash, password)}
    IN  IF good # {}
        THEN LET user == CHOOSE u \in good : TRUE
             IN  [session |-> UserSession(user), flash |-> "Logged in.",
                  target |-> OrElse(next_url, Url("my_tasks", 0)), next |-> NoUrl,
                  event |-> AuthLogEntry("login_success", user.username, user.id, FALSE)]
        ELSE IF username = e.user /\ password = e.pass
        THEN [session |-> AdminSession, flash |-> "Admin logged in.",
              target |-> OrElse(next_url, Url("admin_dashboard", 0)), next |-> NoUrl,
              event |-> AuthLogEntry("login_success", username, 0, TRUE)]
        ELSE [session |-> sess, flash |-> "Invalid credentials.",
              target |-> Url("signin", 0), next |-> next_url,
              event |-> AuthLogEntry("login_failure", username, 0, FALSE)]

signin_keeps_identity(sess, tbl, e, form_username, form_password, next_url, db) ==
    LET username == strip(form_username)
        password == strip(form_password)
        found == LookupUser(tbl, username, db)
    IN  IF username = e.user /\ password = e.pass
        THEN [session |-> [sess EXCEPT !.admin_logged_in = TRUE], flash |-> "Admin logged in.",
              target |-> OrElse(next_url, Url("admin_dashboard", 0)), next |-> NoUrl,
              event |-> AuthLogEntry("login_success", username, 0, TRUE)]
        ELSE IF \/ found = {}
                \/ \E u \in found : \/ u.is_active # 1
                                    \/ ~check_password_hash(u.password_hash, password)
        THEN [session |-> sess, flash |-> "Invalid credentials.",
              target |-> Url("signin", 0), next |-> next_url,
              event |-> AuthLogEntry("login_failure", username, 0, FALSE)]
        ELSE LET user == CHOOSE u \in found : TRUE
             IN  [session |-> [sess EXCEPT !.user_id = user.id, !.user_role = user.role,
                                           !.employee_id = user.employee_id],
                  flash |-> "Logged in.",
                  target |-> OrElse(next_url, Url("my_tasks", 0)), next |-> NoUrl,
                  event |-> AuthLogEntry("login_success", user.username, user.id, FALSE)]

signin_reveals_inactive(sess, tbl, e, form_username, form_password, next_url, db) ==
    LET username == strip(form_username)
        password == strip(form_password)
        found == LookupUser(tbl, username, db)
    IN  IF username = e.user /\ password = e.pass
        THEN [session |-> AdminSession, flash |-> "Admin logged in.",
              target |-> OrElse(next_url, Url("admin_dashboard", 0)), next |-> NoUrl,
              event |-> AuthLogEntry("login_success", username, 0, TRUE)]
        ELSE IF \E u \in found : u.is_active # 1
        THEN [session |-> sess, flash |-> "Account disabled.",
              target |-> Url("signin", 0), next |-> next_url,
              event |-> AuthLogEntry("login_failure", username, 0, FALSE)]
        ELSE IF \/ found = {}
                \/ \E u \in found : ~check_password_hash(u.password_hash, password)
        THEN [session |-> sess, flash |-> "Invalid credentials.",
              target |-> Url("signin", 0), next |-> next_url,
              event |-> AuthLogEntry("login_failure", username, 0, FALSE)]
        ELSE LET user == CHOOSE u \in found : TRUE
             IN  [session |-> UserSession(user), flash |-> "Logged in.",
                  target |-> OrElse(next_url, Url("my_tasks", 0)), next |-> NoUrl,
                  event |-> AuthLogEntry("login_success", user.username, user.id, FALSE)]

\* signin, the POST branch: the session, the flash message, the redirect and
\* the one log_auth_event call it makes.
signin(sess, tbl, e, form_username, form_password, next_url, db) ==
    LET username == strip(form_username)
        password == strip(form_password)
        found == LookupUser(tbl, username, db)
    IN  IF username = e.user /\ password = e.pass
        THEN [session |-> AdminSession, flash |-> "Admin logged in.",
              target |-> OrElse(next_url, Url("admin_dashboard", 0)), next |-> NoUrl,
              event |-> AuthLogEntry("login_success", username, 0, TRUE)]
        ELSE IF \/ found = {}
                \/ \E u \in found : \/ u.is_active # 1
                                    \/ ~check_password_hash(u.password_hash, password)
        THEN [session |-> sess, flash |-> "Invalid credentials.",
              target |-> Url("signin", 0), next |-> next_url,
              event |-> AuthLogEntry("login_failure", username, 0, FALSE)]
        ELSE LET user == CHOOSE u \in found : TRUE
             IN  [session |-> UserSession(user), flash |-> "Logged in.",
                  target |-> OrElse(next_url, Url("my_tasks", 0)), next |-> NoUrl,
                  event |-> AuthLogEntry("login_success", user.username, user.id, FALSE)]

----------------------------------------------------------------------------
(* Logout *)

\* user_logout (GET /logout): the three user keys are popped first, the
\* admin flag is left alone, and the audit call is chosen from what remains.
user_logout(sess) ==
    LET popped == [sess EXCEPT !.user_id = 0, !.user_role = NoneStr, !.employee_id = 0]
    IN  [session |-> popped,
         event |-> IF popped.admin_logged_in
                   THEN AuthLogEntry("logout", <<"admin">>, 0, TRUE)
                   ELSE IF popped.user_id # 0
                   THEN AuthLogEntry("logout", NoneStr, popped.user_id, FALSE)
                   ELSE NoAuthEvent,
         flash |-> "Logged out.", target |-> Url("home", 0)]

\* admin_logout (GET /admin/logout): session.clear(), then a logout entry
\* for "admin" whatever the session held.
admin_logout(sess) ==
    [session |-> EmptySession,
     event |-> AuthLogEntry("logout", <<"admin">>, 0, TRUE),
     flash |-> "Logged out.", target |-> Url("admin_login", 0)]

----------------------------------------------------------------------------
(* Role gates *)

\* admin_required: TRUE when the view function is called
admin_required(sess) == sess.admin_logged_in

employee_required_no_admin(sess) ==
    sess.user_id # 0 /\ sess.user_role \in {"employee", "user"}

\* employee_required: TRUE when the view function is called
employee_required(sess) ==
    IF sess.admin_logged_in THEN TRUE
    ELSE ~(sess.user_id = 0 \/ sess.user_role \notin {"employee", "user"})

\* the redirect a gate answers with: url_for(<login>, next=request.path)
GateRedirect(req, login, msg) ==
    [req EXCEPT !.gate = "redirect", !.flash = msg, !.target = Url(login, 0),
                !.next = req.path]

----------------------------------------------------------------------------
(* Inputs of the sign-in form and contents of the configuration *)

FormUsernames == {<<"admin">>, <<"alice">>}

FormPasswords == {<<"admin">>, <<" ", "admin", " ">>}

NextUrls == {NoUrl, Url("/admin/tasks", 0)}

\* os.getenv("ADMIN_USERNAME", "admin"), os.getenv("ADMIN_PASSWORD", "admin"):
\* the defaults, and a quoted .env value that keeps its surrounding blanks
EnvConfigs ==
    {[user |-> <<"admin">>, pass |-> <<"admin">>],
     [user |-> <<"admin">>, pass |-> <<" ", "admin", " ">>]}

UserRow(id, username, pw, role, is_active, employee_id) ==
    [id |-> id, username |-> username, password_hash |-> generate_password_hash(pw),
     role |-> role, is_active |-> is_active, employee_id |-> employee_id]

\* users tables for the sign-in runs: empty, or one row whose username may
\* be the administrator's and whose hash may match the administrator's password
AuthUsersTables ==
    {{}} \cup
    {{UserRow(1, n, p, "employee", a, 1)} :
        n \in {<<"admin">>, <<"alice">>}, p \in {<<"admin">>, <<"pw">>}, a \in {0, 1}}

----------------------------------------------------------------------------
(* Actions: authentication *)

SignIn_audit_required ==
    \E fu \in FormUsernames, fp \in FormPasswords, nx \in NextUrls,
       db \in DbOutcomes, adb \in DbOutcomes :
        \E r \in {signin(session, users, env, fu, fp, nx, db)} :
            /\ Len(authlog) < MaxAuthLog
            /\ session' = IF adb = "ok" THEN r.session ELSE session
            /\ authlog' = log_auth_event(authlog, r.event, adb)
            /\ last' = [Request("signin") EXCEPT
                          !.path = Url("/signin", 0), !.username = fu, !.password = fp,
                          !.next_url = nx, !.db = db, !.audit = adb,
                          !.flash = r.flash, !.target = r.target, !.next = r.next]
            /\ UNCHANGED <<env, users, tasks, nextTaskId, timelog, now, started, admin_actions, rows, files,
                       workers, schema>>

\* POST /signin
SignIn ==
    \E fu \in FormUsernames, fp \in FormPasswords, nx \in NextUrls,
       db \in DbOutcomes, adb \in DbOutcomes :
        \E r \in {signin(session, users, env, fu, fp, nx, db)} :
            /\ Len(authlog) < MaxAuthLog
            /\ session' = r.session
            /\ authlog' = log_auth_event(authlog, r.event, adb)
            /\ last' = [Request("signin") EXCEPT
                          !.path = Url("/signin", 0), !.username = fu, !.password = fp,
                          !.next_url = nx, !.db = db, !.audit = adb,
                          !.flash = r.flash, !.target = r.target, !.next = r.next]
            /\ UNCHANGED <<env, users, tasks, nextTaskId, timelog, now, started, admin_actions, rows, files,
                       workers, schema>>

\* GET /logout
UserLogout ==
    \E adb \in DbOutcomes :
        \E r \in {user_logout(session)} :
            /\ Len(authlog) < MaxAuthLog
            /\ session' = r.session
            /\ authlog' = log_auth_event(authlog, r.event, adb)
            /\ last' = [Request("user_logout") EXCEPT
                          !.path = Url("/logout", 0), !.audit = adb,
                          !.flash = r.flash, !.target = r.target]
            /\ UNCHANGED <<env, users, tasks, nextTaskId, timelog, now, started, admin_actions, rows, files,
                       workers, schema>>

\* GET /admin/logout
AdminLogout ==
    \E adb \in DbOutcomes :
        \E r \in {admin_logout(session)} :
            /\ Len(authlog) < MaxAuthLog
            /\ session' = r.session
            /\ authlog' = log_auth_event(authlog, r.event, adb)
            /\ last' = [Request("admin_logout") EXCEPT
                          !.path = Url("/admin/logout", 0), !.audit = adb,
                          !.flash = r.flash, !.target = r.target]
            /\ UNCHANGED <<env, users, tasks, nextTaskId, timelog, now, started, admin_actions, rows, files,
                       workers, schema>>

NoTask == [exists |-> FALSE, employee_id |-> 0, status |-> NoneStr, updated_at |-> 0]

TaskIds == 1..MaxTasks

InitAuth ==
    /\ env \in EnvConfigs
    /\ users \in AuthUsersTables
    /\ session = EmptySession
    /\ authlog = <<>>
    /\ tasks = [k \in TaskIds |-> NoTask]
    /\ nextTaskId = 1
    /\ timelog = <<>>
    /\ started = {}
    /\ admin_actions = <<>>
    /\ rows = <<>>
    /\ files = <<>>
    /\ workers = <<>>
    /\ schema = <<>>
    /\ now = 0
    /\ last = NoRequest

NextAuth == SignIn \/ UserLogout \/ AdminLogout

SpecAuth == InitAuth /\ [][NextAuth]_vars

----------------------------------------------------------------------------
(* Properties of sign-in and logout, checked under SpecAuth *)

\* the step handled one request of the given kind
Handled(op) == last'.seq # last.seq /\ last'.op = op

SignInEstablished(req) == req.flash \in {"Admin logged in.", "Logged in."}

\* the users table holds an active row with the administrator's username
\* whose hash matches the administrator's password
ShadowingUserRow ==
    \E u \in users : /\ u.username = env.user
                     /\ u.is_active = 1
                     /\ check_password_hash(u.password_hash, strip(env.pass))

\* C1 as stated: a sign-in POST whose submitted username and password equal
\* the configured administrator credentials ends with an admin session
\* (admin flag set; no user id, role or employee id), whatever users holds.
C1_SubmittedEqualsConfigured ==
    (last.op = "signin" /\ last.username = env.user /\ last.password = env.pass)
        => session = AdminSession

\* C1 amended: a sign-in POST whose username and password, after the
\* surrounding whitespace is trimmed, equal the configured administrator
\* credentials ends with an admin session, whatever the users table holds.
C1_TrimmedEqualsConfigured ==
    (last.op = "signin" /\ strip(last.username) = env.user
                        /\ strip(last.password) = env.pass)
        => /\ session = AdminSession
           /\ session.admin_logged_in
           /\ session.user_id = 0 /\ session.user_role = NoneStr /\ session.employee_id = 0

\* C1 witness: an admin sign-in (submitted with blanks around the password)
\* while an active users row has the same username and a matching hash
C1_Witness ==
    /\ last.op = "signin"
    /\ last.username = env.user /\ last.password # env.pass
    /\ strip(last.password) = env.pass
    /\ ShadowingUserRow
    /\ session = AdminSession

\* C2 as stated: every sign-in POST appends exactly one AuthLogEntry,
\* login_success when a session was established and login_failure otherwise,
\* whatever the database availability during the attempt.
C2_ExactlyOneEntry ==
    [][Handled("signin") =>
          /\ Len(authlog') = Len(authlog) + 1
          /\ SubSeq(authlog', 1, Len(authlog)) = authlog
          /\ authlog'[Len(authlog')].action =
                IF SignInEstablished(last') THEN "login_success" ELSE "login_failure"]_vars

\* C2 amended: every sign-in POST appends at most one AuthLogEntry: exactly
\* one, login_success when a session was established and login_failure
\* otherwise, when the audit write's connection and INSERT succeed, and none
\* when the database is unavailable for the audit write.
C2_OneEntryWhenAuditWritten ==
    [][Handled("signin") =>
          IF last'.audit = "ok"
          THEN /\ Len(authlog') = Len(authlog) + 1
               /\ SubSeq(authlog', 1, Len(authlog)) = authlog
               /\ authlog'[Len(authlog')].action =
                     IF SignInEstablished(last') THEN "login_success" ELSE "login_failure"
          ELSE authlog' = authlog]_vars

\* C2 witness: a sign-in whose audit write found no connection, after an
\* earlier sign-in that was logged
C2_Witness ==
    /\ last.op = "signin" /\ last.audit = "no_conn"
    /\ SignInEstablished(last)
    /\ Len(authlog) = 1 /\ authlog[1].action = "login_failure"

\* C8: after GET /logout the session holds no identity, whichever identity
\* was active before, so no admin-gated or employee-gated route lets it in.
C8_LogoutLeavesNoIdentity ==
    last.op = "user_logout"
        => /\ session = EmptySession
           /\ ~admin_required(session)
           /\ ~employee_required(session)

ActiveIdentity(sess) == sess.admin_logged_in \/ sess.user_id # 0

\* the entry is a logout entry of the identity the session holds
AttributedTo(entry, sess) ==
    /\ entry.action = "logout"
    /\ IF sess.admin_logged_in
       THEN entry.is_admin = 1
       ELSE sess.user_id # 0 /\ entry.user_id = sess.user_id /\ entry.is_admin = 0

\* C9: a logout performed while an identity is active appends one logout
\* AuthLogEntry, and that entry is attributed to the identity that was active
\* and to no other (stated for the case that the database is available for
\* the audit write).
C9_LogoutEntryAttributed ==
    [][((Handled("user_logout") \/ Handled("admin_logout"))
            /\ last'.audit = "ok" /\ ActiveIdentity(session)) =>
          /\ Len(authlog') = Len(authlog) + 1
          /\ SubSeq(authlog', 1, Len(authlog)) = authlog
          /\ AttributedTo(authlog'[Len(authlog')], session)]_vars

----------------------------------------------------------------------------
(* Tasks and the time log *)

\* the employees table: ids of the rows it holds
EmpIds == {1, 2}

\* tasks.status, ENUM('todo','in_progress','done','blocked')
TaskStatuses == {"todo", "in_progress", "done", "blocked"}

TaskRow(employee_id, status, at) ==
    [exists |-> TRUE, employee_id |-> employee_id, status |-> status, updated_at |-> at]

TimeLogEvent(employee_id, task_id, action, at) ==
    [employee_id |-> employee_id, task_id |-> task_id, action |-> action, at |-> at]

\* outcomes of the one transaction of start/complete: no connection, an
\* Error raised by the SELECT, an Error raised by a later statement or the
\* commit, or success
TaskDbOutcomes == {"ok", "no_conn", "select_error", "write_error"}

\* the result of a handler that changed nothing
Unchanged(tbl, log, flash, target) ==
    [tasks |-> tbl, timelog |-> log, flash |-> flash, target |-> target]

task_action_unchecked(sess, tbl, log, task_id, db, at1, at2, action, status, okmsg, errmsg) ==
    LET emp_id == sess.employee_id
    IN  IF ~get_db_connection(db)
        THEN Unchanged(tbl, log, "Database not available.", Url("my_task_detail", task_id))
        ELSE IF db = "select_error"
        THEN Unchanged(tbl, log, errmsg, Url("my_task_detail", task_id))
        ELSE IF ~tbl[task_id].exists
        THEN Unchanged(tbl, log, "You don't have access to this task.", Url("my_tasks", 0))
        ELSE IF emp_id = 0 \/ db = "write_error"
        THEN Unchanged(tbl, log, errmsg, Url("my_task_detail", task_id))
        ELSE [tasks |-> [tbl EXCEPT ![task_id].status = status, ![task_id].updated_at = at2],
              timelog |-> Append(log, TimeLogEvent(emp_id, task_id, action, at1)),
              flash |-> okmsg, target |-> Url("my_task_detail", task_id)]

\* the body shared, statement for statement, by task_start and
\* task_complete: connection, ownership check, INSERT into task_time_logs
\* (employee_id is NOT NULL), UPDATE of the task, commit.  An Error before
\* the commit leaves both tables as they were.
task_action(sess, tbl, log, task_id, db, at1, at2, action, status, okmsg, errmsg) ==
    LET emp_id == sess.employee_id
    IN  IF ~get_db_connection(db)
        THEN Unchanged(tbl, log, "Database not available.", Url("my_task_detail", task_id))
        ELSE IF db = "select_error"
        THEN Unchanged(tbl, log, errmsg, Url("my_task_detail", task_id))
        ELSE IF ~tbl[task_id].exists \/ tbl[task_id].employee_id # emp_id
        THEN Unchanged(tbl, log, "You don't have access to this task.", Url("my_tasks", 0))
        ELSE IF emp_id = 0 \/ db = "write_error"
        THEN Unchanged(tbl, log, errmsg, Url("my_task_detail", task_id))
        ELSE [tasks |-> [tbl EXCEPT ![task_id].status = status, ![task_id].updated_at = at2],
              timelog |-> Append(log, TimeLogEvent(emp_id, task_id, action, at1)),
              flash |-> okmsg, target |-> Url("my_task_detail", task_id)]

task_start_blocks(sess, tbl, log, task_id, db, at1, at2) ==
    task_action(sess, tbl, log, task_id, db, at1, at2,
                "start", "blocked", "Task started.", "Could not start task.")

\* task_start (POST /my/tasks/<id>/start), below the gate
task_start(sess, tbl, log, task_id, db, at1, at2) ==
    task_action(sess, tbl, log, task_id, db, at1, at2,
                "start", "in_progress", "Task started.", "Could not start task.")

task_complete_no_log(sess, tbl, log, task_id, db, at1, at2) ==
    [task_action(sess, tbl, log, task_id, db, at1, at2,
                 "complete", "done", "Task completed.", "Could not complete task.")
        EXCEPT !.timelog = log]

\* task_complete (POST /my/tasks/<id>/complete), below the gate
task_complete(sess, tbl, log, task_id, db, at1, at2) ==
    task_action(sess, tbl, log, task_id, db, at1, at2,
                "complete", "done", "Task completed.", "Could not complete task.")

----------------------------------------------------------------------------
(* Admin task console *)

\* the fields of the task form that the model follows
TaskForm(title, employee_id, status) ==
    [title |-> title, employee_id |-> employee_id, status |-> status]

\* admin_tasks_new, the POST branch below the gate: title check, then the
\* INSERT with the status the form supplied
admin_tasks_new(tbl, nextId, form, db, at) ==
    IF strip(form.title) = <<>>
    THEN [tasks |-> tbl, nextTaskId |-> nextId,
          flash |-> "Title is required.", target |-> Url("admin_tasks_new", 0)]
    ELSE IF ~get_db_connection(db)
    THEN [tasks |-> tbl, nextTaskId |-> nextId,
          flash |-> NoneStr, target |-> Url("admin/task_form.html", 0)]
    ELSE IF db = "error" \/ form.status \notin TaskStatuses
    THEN [tasks |-> tbl, nextTaskId |-> nextId,
          flash |-> "Error creating task.", target |-> Url("admin/task_form.html", 0)]
    ELSE [tasks |-> [tbl EXCEPT ![nextId] = TaskRow(form.employee_id, form.status, at)],
          nextTaskId |-> nextId + 1,
          flash |-> "Task created.", target |-> Url("admin_tasks_list", 0)]

\* admin_tasks_edit, the POST branch below the gate: title check, then
\* UPDATE tasks SET ..., employee_id, status, updated_at WHERE id
admin_tasks_edit(tbl, task_id, form, db, at) ==
    IF strip(form.title) = <<>>
    THEN [tasks |-> tbl, flash |-> "Title is required.", target |-> Url("admin_tasks_edit", task_id)]
    ELSE IF ~get_db_connection(db)
    THEN [tasks |-> tbl, flash |-> NoneStr, target |-> Url("admin_tasks_list", 0)]
    ELSE IF db = "error" \/ form.status \notin TaskStatuses
    THEN [tasks |-> tbl, flash |-> "Error updating task.", target |-> Url("admin_tasks_list", 0)]
    ELSE [tasks |-> IF tbl[task_id].exists
                    THEN [tbl EXCEPT ![task_id] = TaskRow(form.employee_id, form.status, at)]
                    ELSE tbl,
          flash |-> "Task updated.", target |-> Url("admin_tasks_list", 0)]

admin_tasks_delete_keeps_log(tbl, log, task_id, db) ==
    IF ~get_db_connection(db)
    THEN Unchanged(tbl, log, NoneStr, Url("admin_tasks_list", 0))
    ELSE IF db = "error"
    THEN Unchanged(tbl, log, "Error deleting task.", Url("admin_tasks_list", 0))
    ELSE [tasks |-> [tbl EXCEPT ![task_id] = NoTask], timelog |-> log,
          flash |-> "Task deleted.", target |-> Url("admin_tasks_list", 0)]

\* admin_tasks_delete below the gate: DELETE FROM tasks WHERE id; the rows of
\* task_time_logs that reference the task go with it (ON DELETE CASCADE)
admin_tasks_delete(tbl, log, task_id, db) ==
    IF ~get_db_connection(db)
    THEN Unchanged(tbl, log, NoneStr, Url("admin_tasks_list", 0))
    ELSE IF db = "error"
    THEN Unchanged(tbl, log, "Error deleting task.", Url("admin_tasks_list", 0))
    ELSE [tasks |-> [tbl EXCEPT ![task_id] = NoTask],
          timelog |-> SelectSeq(log, LAMBDA ev : ev.task_id # task_id),
          flash |-> "Task deleted.", target |-> Url("admin_tasks_list", 0)]

----------------------------------------------------------------------------
(* Inputs of the task runs *)

\* the users table of the task runs: an employee, a "user", and a user with
\* a role that the employee gate does not admit
TaskUsers ==
    {UserRow(1, <<"alice">>, <<"pw">>, "employee", 1, 1),
     UserRow(2, <<"bob">>, <<"pw">>, "user", 1, 2),
     UserRow(3, <<"carol">>, <<"pw">>, "manager", 1, 1)}

DefaultEnv == [user |-> <<"admin">>, pass |-> <<"admin">>]

\* the cookies signin issues over TaskUsers, and the cookie of a browser
\* that never signed in
IssuedSessions ==
    {EmptySession} \cup
    {signin(EmptySession, TaskUsers, DefaultEnv, c[1], c[2], NoUrl, "ok").session :
        c \in {<<<<"admin">>, <<"admin">>>>, <<<<"alice">>, <<"pw">>>>,
               <<<<"bob">>, <<"pw">>>>, <<<<"carol">>, <<"pw">>>>}}

TaskForms ==
    {TaskForm(<<" ">>, 1, "todo"), TaskForm(<<"Migrate DB">>, 1, "archived"),
     TaskForm(<<"Migrate DB">>, 0, "todo")} \cup
    {TaskForm(<<"Migrate DB">>, e, st) : e \in EmpIds, st \in TaskStatuses}

\* the readings of datetime.utcnow() in one request: not before the last
Clock == {t \in now..(now + 1) : t <= MaxClock}

\* the inputs of a start/complete request: every clock reading when the
\* transaction goes through, one when it fails
TaskInputs ==
    {<<"ok", t>> : t \in Clock} \cup {<<db, now>> : db \in TaskDbOutcomes \ {"ok"}}

\* the inputs of a task-form POST: every form and clock reading when the
\* database works, one form when it does not
FormInputs ==
    {<<f, "ok", t>> : f \in TaskForms, t \in Clock} \cup
    {<<TaskForm(<<"Migrate DB">>, 1, "todo"), db, now>> : db \in DbOutcomes \ {"ok"}}

----------------------------------------------------------------------------
(* Actions: the employee task routes and the admin task console *)

TaskPath(k, suffix) == Url(suffix, k)

\* a request to a route behind employee_required that is turned away
EmployeeGateRedirect(s, op, path, k) ==
    /\ session' = s
    /\ last' = GateRedirect([Request(op) EXCEPT !.path = path, !.task_id = k],
                            "user_login", "Please log in to access this page.")
    /\ UNCHANGED <<env, users, authlog, tasks, nextTaskId, timelog, now, started, admin_actions, rows, files,
                       workers, schema>>

\* a request to a route behind admin_required that is turned away
AdminGateRedirect(s, op, path, k) ==
    /\ session' = s
    /\ last' = GateRedirect([Request(op) EXCEPT !.path = path, !.task_id = k],
                            "admin_login", "Please log in to access admin.")
    /\ UNCHANGED <<env, users, authlog, tasks, nextTaskId, timelog, now, started, admin_actions, rows, files,
                       workers, schema>>

\* POST /my/tasks/<k>/start
TaskStart ==
    \E s \in IssuedSessions, k \in TaskIds :
        IF employee_required(s)
        THEN \E inp \in TaskInputs :
             \E r \in {task_start(s, tasks, timelog, k, inp[1], inp[2], inp[2])} :
                /\ Len(r.timelog) <= MaxTimeLog
                /\ session' = s
                /\ tasks' = r.tasks
                /\ timelog' = r.timelog
                /\ now' = inp[2]
                /\ last' = [Request("task_start") EXCEPT
                              !.path = TaskPath(k, "/my/tasks/<id>/start"), !.task_id = k,
                              !.gate = "pass", !.db = inp[1],
                              !.flash = r.flash, !.target = r.target]
                /\ started' = IF r.flash = "Task started."
                              THEN started \cup {<<s.employee_id, k>>} ELSE started
                /\ UNCHANGED <<env, users, authlog, nextTaskId, admin_actions, rows, files,
                       workers, schema>>
        ELSE EmployeeGateRedirect(s, "task_start", TaskPath(k, "/my/tasks/<id>/start"), k)

\* POST /my/tasks/<k>/complete
TaskComplete ==
    \E s \in IssuedSessions, k \in TaskIds :
        IF employee_required(s)
        THEN \E inp \in TaskInputs :
             \E r \in {task_complete(s, tasks, timelog, k, inp[1], inp[2], inp[2])} :
                /\ Len(r.timelog) <= MaxTimeLog
                /\ session' = s
                /\ tasks' = r.tasks
                /\ timelog' = r.timelog
                /\ now' = inp[2]
                /\ last' = [Request("task_complete") EXCEPT
                              !.path = TaskPath(k, "/my/tasks/<id>/complete"), !.task_id = k,
                              !.gate = "pass", !.db = inp[1],
                              !.flash = r.flash, !.target = r.target]
                /\ UNCHANGED <<env, users, authlog, nextTaskId, started, admin_actions, rows, files,
                       workers, schema>>
        ELSE EmployeeGateRedirect(s, "task_complete", TaskPath(k, "/my/tasks/<id>/complete"), k)

\* POST /admin/tasks/new
AdminTasksNew ==
    \E s \in IssuedSessions :
        IF admin_required(s)
        THEN \E inp \in FormInputs :
             \E r \in {admin_tasks_new(tasks, nextTaskId, inp[1], inp[2], inp[3])} :
                /\ r.nextTaskId <= MaxTasks + 1
                /\ session' = s
                /\ tasks' = r.tasks
                /\ nextTaskId' = r.nextTaskId
                /\ now' = inp[3]
                /\ last' = [Request("admin_tasks_new") EXCEPT
                              !.path = Url("/admin/tasks/new", 0),
                              !.task_id = IF r.nextTaskId # nextTaskId THEN nextTaskId ELSE 0,
                              !.gate = "pass", !.db = inp[2],
                              !.flash = r.flash, !.target = r.target]
                /\ UNCHANGED <<env, users, authlog, timelog, started, admin_actions, rows, files,
                       workers, schema>>
        ELSE AdminGateRedirect(s, "admin_tasks_new", Url("/admin/tasks/new", 0), 0)

\* POST /admin/tasks/<k>/edit
AdminTasksEdit ==
    \E s \in IssuedSessions, k \in TaskIds :
        IF admin_required(s)
        THEN \E inp \in FormInputs :
             \E r \in {admin_tasks_edit(tasks, k, inp[1], inp[2], inp[3])} :
                /\ session' = s
                /\ tasks' = r.tasks
                /\ now' = inp[3]
                /\ last' = [Request("admin_tasks_edit") EXCEPT
                              !.path = Url("/admin/tasks/<id>/edit", k), !.task_id = k,
                              !.gate = "pass", !.db = inp[2],
                              !.flash = r.flash, !.target = r.target]
                /\ UNCHANGED <<env, users, authlog, nextTaskId, timelog, started, admin_actions, rows, files,
                       workers, schema>>
        ELSE AdminGateRedirect(s, "admin_tasks_edit", Url("/admin/tasks/<id>/edit", k), k)

\* POST /admin/tasks/<k>/delete
AdminTasksDelete ==
    \E s \in IssuedSessions, k \in TaskIds :
        IF admin_required(s)
        THEN \E db \in DbOutcomes :
             \E r \in {admin_tasks_delete(tasks, timelog, k, db)} :
                /\ session' = s
                /\ tasks' = r.tasks
                /\ timelog' = r.timelog
                /\ last' = [Request("admin_tasks_delete") EXCEPT
                              !.path = Url("/admin/tasks/<id>/delete", k), !.task_id = k,
                              !.gate = "pass", !.db = db,
                              !.args = [removed |-> Len(timelog) - Len(r.timelog)],
                              !.flash = r.flash, !.target = r.target]
                /\ started' = IF r.flash = "Task deleted."
                              THEN {p \in started : p[2] # k} ELSE started
                /\ UNCHANGED <<env, users, authlog, nextTaskId, now, admin_actions, rows, files,
                       workers, schema>>
        ELSE AdminGateRedirect(s, "admin_tasks_delete", Url("/admin/tasks/<id>/delete", k), k)

InitTask ==
    /\ env = DefaultEnv
    /\ users = TaskUsers
    /\ session = EmptySession
    /\ authlog = <<>>
    /\ tasks = [k \in TaskIds |-> NoTask]
    /\ nextTaskId = 1
    /\ timelog = <<>>
    /\ started = {}
    /\ admin_actions = <<>>
    /\ rows = <<>>
    /\ files = <<>>
    /\ workers = <<>>
    /\ schema = <<>>
    /\ now = 0
    /\ last = NoRequest

NextTask == TaskStart \/ TaskComplete \/ AdminTasksNew \/ AdminTasksEdit \/ AdminTasksDelete

SpecTask == InitTask /\ [][NextTask]_vars

----------------------------------------------------------------------------
(* Remote-management actions and the MDM webhook *)

\* a row of admin_actions; id is the position in the table
AdminActionRow(actor, action, tool, status, started_at, ended_at) ==
    [actor |-> actor, action |-> action, tool |-> tool, status |-> status,
     started_at |-> started_at, ended_at |-> ended_at]

\* admin_actions.tool and admin_actions.status, the ENUMs of the DDL
ActionTools == {"AnyDesk", "RDP", "VNC", "MDM", "Other"}

ActionStatuses == {"initiated", "in_progress", "completed", "failed"}

\* an absent header, query parameter or environment variable (None)
NoToken == <<"(none)">>

\* Python truthiness of an optional token string
Truthy(v) == v # NoToken /\ v # <<>>

\* v or dflt, for an optional JSON or form field
Or(v, dflt) == IF v \in {NoneStr, ""} THEN dflt ELSE v

\* the table is created with COLLATE utf8mb4_unicode_ci, under which an ENUM
\* column takes a value that differs from a member in lettercase only and
\* stores the member; the spellings that occur in the inputs
CaseVariants == {<<"Completed", "completed">>, <<"FAILED", "failed">>}

SameUnderCollation(v, m) == v = m \/ <<v, m>> \in CaseVariants

InEnum(v, enum) == \E m \in enum : SameUnderCollation(v, m)

EnumValue(v, enum) == CHOOSE m \in enum : SameUnderCollation(v, m)

\* log_admin_action: best effort.  Nothing is written without a
\* connection, and an Error of the INSERT (a value outside an ENUM among
\* them) is logged and swallowed.  ended_at is NULL (0) unless ended.
log_admin_action(tbl, actor, action, tool, status, ended, db, at) ==
    IF ~get_db_connection(db) \/ db = "error"
       \/ ~InEnum(tool, ActionTools) \/ ~InEnum(status, ActionStatuses)
    THEN tbl
    ELSE Append(tbl, AdminActionRow(actor, action, EnumValue(tool, ActionTools),
                                    EnumValue(status, ActionStatuses), at + 1,
                                    IF ended THEN at + 1 ELSE 0))

\* the JSON body of a webhook call; BadJson is a body for which get_json or
\* data.get raises
HookJson(action, tool, status) ==
    [object |-> TRUE, action |-> action, tool |-> tool, status |-> status]

BadJson == [HookJson(NoneStr, NoneStr, NoneStr) EXCEPT !.object = FALSE]

mdm_webhook_open_when_unset(expected, header, query, json, tbl, db, at) ==
    LET provided == IF Truthy(header) THEN header ELSE query
    IN  IF Truthy(expected) /\ provided # expected
        THEN [status |-> 401, body |-> "unauthorized", admin_actions |-> tbl]
        ELSE IF json = BadJson
        THEN [status |-> 400, body |-> "bad_request", admin_actions |-> tbl]
        ELSE LET status == Or(json.status, "in_progress")
             IN  [status |-> 200, body |-> "ok",
                  admin_actions |->
                      log_admin_action(tbl, "mdm", <<Or(json.action, "remote_action")>>,
                                       Or(json.tool, "MDM"), status,
                                       status \in {"completed", "failed"}, db, at)]

\* mdm_webhook (POST /hooks/mdm): the token is the X-Auth-Token header or,
\* when that is missing or empty, the token query parameter
mdm_webhook(expected, header, query, json, tbl, db, at) ==
    LET provided == IF Truthy(header) THEN header ELSE query
    IN  IF ~Truthy(expected) \/ provided # expected
        THEN [status |-> 401, body |-> "unauthorized", admin_actions |-> tbl]
        ELSE IF json = BadJson
        THEN [status |-> 400, body |-> "bad_request", admin_actions |-> tbl]
        ELSE LET status == Or(json.status, "in_progress")
             IN  [status |-> 200, body |-> "ok",
                  admin_actions |->
                      log_admin_action(tbl, "mdm", <<Or(json.action, "remote_action")>>,
                                       Or(json.tool, "MDM"), status,
                                       status \in {"completed", "failed"}, db, at)]

\* admin_actions_new, the POST branch below the gate
admin_actions_new(tbl, tool, action, db, at) ==
    [admin_actions |->
        log_admin_action(tbl, "admin",
                         IF strip(action) = <<>> THEN <<"remote_action">> ELSE strip(action),
                         Or(tool, "Other"), "initiated", FALSE, db, at),
     flash |-> "Admin action logged.", target |-> Url("admin_actions_list", 0)]

admin_actions_complete_reopens(tbl, action_id, db, at) ==
    IF ~get_db_connection(db)
    THEN [admin_actions |-> tbl, flash |-> NoneStr, target |-> Url("admin_actions_list", 0)]
    ELSE IF db = "error"
    THEN [admin_actions |-> tbl, flash |-> "Could not update action.",
          target |-> Url("admin_actions_list", 0)]
    ELSE [admin_actions |->
              IF action_id \in 1..Len(tbl)
              THEN [tbl EXCEPT ![action_id].status = "in_progress", ![action_id].ended_at = 0]
              ELSE tbl,
          flash |-> "Action marked as completed.", target |-> Url("admin_actions_list", 0)]

\* admin_actions_complete below the gate: UPDATE ... WHERE id
admin_actions_complete(tbl, action_id, db, at) ==
    IF ~get_db_connection(db)
    THEN [admin_actions |-> tbl, flash |-> NoneStr, target |-> Url("admin_actions_list", 0)]
    ELSE IF db = "error"
    THEN [admin_actions |-> tbl, flash |-> "Could not update action.",
          target |-> Url("admin_actions_list", 0)]
    ELSE [admin_actions |->
              IF action_id \in 1..Len(tbl)
              THEN [tbl EXCEPT ![action_id].status = "completed", ![action_id].ended_at = at + 1]
              ELSE tbl,
          flash |-> "Action marked as completed.", target |-> Url("admin_actions_list", 0)]


\* the values of MDM_WEBHOOK_TOKEN: unset, empty, and a secret
HookEnvs ==
    {[user |-> <<"admin">>, pass |-> <<"admin">>, token |-> t] :
        t \in {NoToken, <<>>, <<"s3cret">>}}

\* what a caller can put in X-Auth-Token or ?token=
HookTokens == {NoToken, <<>>, <<"s3cret">>, <<"guess">>}

HookJsons ==
    {BadJson, HookJson(NoneStr, NoneStr, NoneStr),
     HookJson("remote_session", "AnyDesk", "completed"),
     HookJson("lock", "MDM", "failed"),
     HookJson("remote_session", "AnyDesk", "Completed"),
     HookJson("wipe", "MDM", "bogus")}

\* the inputs of a webhook call: every token pair and body when the database
\* works, one authorised call when it does not
HookInputs ==
    {<<h, q, j, "ok">> : h \in HookTokens, q \in HookTokens, j \in HookJsons} \cup
    {<<<<"s3cret">>, NoToken, HookJson(NoneStr, NoneStr, NoneStr), db>> :
        db \in DbOutcomes \ {"ok"}}

\* the fields of the remote-action form
ActionForms == {<<NoneStr, <<" ">>>>, <<"RDP", <<"reboot">>>>, <<"Telnet", <<"reboot">>>>}

\* the cookies of the callers of the admin-actions routes
ActionSessions == {s \in IssuedSessions : s.user_id \in {0, 1}}

\* POST /hooks/mdm
MdmWebhook ==
    \E inp \in HookInputs :
    \E r \in {mdm_webhook(env.token, inp[1], inp[2], inp[3], admin_actions, inp[4], now)} :
        /\ Len(r.admin_actions) <= MaxActions
        /\ admin_actions' = r.admin_actions
        /\ last' = [Request("mdm_webhook") EXCEPT
                      !.path = Url("/hooks/mdm", 0), !.db = inp[4],
                      !.args = [header |-> inp[1], query |-> inp[2]],
                      !.status = r.status, !.body = r.body]
        /\ UNCHANGED <<env, users, session, authlog, tasks, nextTaskId, timelog, now,
                       started, rows, files,
                       workers, schema>>

\* a request to an admin-actions route that admin_required turns away
ActionsGateRedirect(s, op, path) ==
    /\ session' = s
    /\ last' = GateRedirect([Request(op) EXCEPT !.path = path],
                            "admin_login", "Please log in to access admin.")
    /\ UNCHANGED <<env, users, authlog, tasks, nextTaskId, timelog, now, started,
                   admin_actions, rows, files,
                       workers, schema>>

\* POST /admin/actions/new
AdminActionsNew ==
    \E s \in ActionSessions :
        IF admin_required(s)
        THEN \E f \in ActionForms, db \in DbOutcomes :
             \E r \in {admin_actions_new(admin_actions, f[1], f[2], db, now)} :
                /\ Len(r.admin_actions) <= MaxActions
                /\ session' = s
                /\ admin_actions' = r.admin_actions
                /\ last' = [Request("admin_actions_new") EXCEPT
                              !.path = Url("/admin/actions/new", 0),
                              !.gate = "pass", !.db = db,
                              !.flash = r.flash, !.target = r.target]
                /\ UNCHANGED <<env, users, authlog, tasks, nextTaskId, timelog, now,
                               started, rows, files,
                       workers, schema>>
        ELSE ActionsGateRedirect(s, "admin_actions_new", Url("/admin/actions/new", 0))

\* POST /admin/actions/<id>/complete
AdminActionsComplete ==
    \E s \in ActionSessions, k \in 1..MaxActions :
        IF admin_required(s)
        THEN \E db \in DbOutcomes :
             \E r \in {admin_actions_complete(admin_actions, k, db, now)} :
                /\ session' = s
                /\ admin_actions' = r.admin_actions
                /\ last' = [Request("admin_actions_complete") EXCEPT
                              !.path = Url("/admin/actions/<id>/complete", k), !.task_id = k,
                              !.gate = "pass", !.db = db,
                              !.flash = r.flash, !.target = r.target]
                /\ UNCHANGED <<env, users, authlog, tasks, nextTaskId, timelog, now,
                               started, rows, files,
                       workers, schema>>
        ELSE ActionsGateRedirect(s, "admin_actions_complete",
                                 Url("/admin/actions/<id>/complete", k))

InitActions ==
    /\ env \in HookEnvs
    /\ users = TaskUsers
    /\ session = EmptySession
    /\ authlog = <<>>
    /\ tasks = [k \in TaskIds |-> NoTask]
    /\ nextTaskId = 1
    /\ timelog = <<>>
    /\ now = 0
    /\ last = NoRequest
    /\ started = {}
    /\ admin_actions = <<>>
    /\ rows = <<>>
    /\ files = <<>>
    /\ workers = <<>>
    /\ schema = <<>>

NextActions == MdmWebhook \/ AdminActionsNew \/ AdminActionsComplete

SpecActions == InitActions /\ [][NextActions]_vars


----------------------------------------------------------------------------
(* Claims about the task tracker, checked under SpecTask *)

TaskOps == {"task_start", "task_complete"}

AdminTaskOps == {"admin_tasks_new", "admin_tasks_edit", "admin_tasks_delete"}

NoAccess == "You don't have access to this task."

\* the step handles a start or complete of task k below the gate
TaskRequest(k) ==
    /\ last'.seq # last.seq
    /\ last'.op \in TaskOps
    /\ last'.gate = "pass"
    /\ last'.task_id = k

\* task k is missing, or its employee_id differs from the caller's
NotOwned(k) ==
    ~tasks[k].exists \/ tasks[k].employee_id # session'.employee_id

\* C3, as stated: start or complete of a task that does not exist or whose
\* employee_id differs from the caller's appends no TimeLogEvent, changes no
\* task, and always answers with the no-access error.
C3_NotOwnedAnswersNoAccess ==
    [][\A k \in TaskIds :
        (TaskRequest(k) /\ NotOwned(k)) =>
            /\ timelog' = timelog
            /\ tasks' = tasks
            /\ last'.flash = NoAccess]_vars

\* C3, amended: such a call never appends a TimeLogEvent and never changes
\* a task; it answers with the no-access error when the lookup of the task
\* went through, with "Database not available." when there was no
\* connection, and with the could-not-start/complete message when the
\* lookup raised an Error.
C3_NotOwnedMutatesNothing ==
    [][\A k \in TaskIds :
        (TaskRequest(k) /\ NotOwned(k)) =>
            /\ timelog' = timelog
            /\ tasks' = tasks
            /\ last'.db \in {"ok", "write_error"} =>
                  last'.flash = NoAccess /\ last'.target = Url("my_tasks", 0)
            /\ last'.db = "no_conn" => last'.flash = "Database not available."
            /\ last'.db = "select_error" =>
                  last'.flash = IF last'.op = "task_start"
                                THEN "Could not start task."
                                ELSE "Could not complete task."]_vars

\* an employee was refused a task that exists and belongs to someone else
C3_Witness ==
    /\ last.op \in TaskOps
    /\ last.gate = "pass"
    /\ last.flash = NoAccess
    /\ session.employee_id # 0
    /\ tasks[last.task_id].exists
    /\ tasks[last.task_id].employee_id # session.employee_id
    /\ tasks[last.task_id].employee_id # 0

\* the last request was a successful complete of task k by employee e, who
\* had started it successfully before
CompletedAfterStart(e, k) ==
    /\ last.op = "task_complete"
    /\ last.task_id = k
    /\ last.flash = "Task completed."
    /\ session.employee_id = e
    /\ <<e, k>> \in started

\* C4: after a successful start and then a successful complete of a task by
\* its employee, task_time_logs holds a start event and after it a complete
\* event for that (employee, task), the start's timestamp is not later than
\* the complete's, and the task's status is done.
C4_StartThenComplete ==
    \A e \in EmpIds, k \in TaskIds :
        CompletedAfterStart(e, k) =>
            /\ tasks[k].exists /\ tasks[k].status = "done"
            /\ \E i, j \in 1..Len(timelog) :
                /\ i < j
                /\ j = Len(timelog)
                /\ timelog[i].employee_id = e /\ timelog[i].task_id = k
                /\ timelog[i].action = "start"
                /\ timelog[j].employee_id = e /\ timelog[j].task_id = k
                /\ timelog[j].action = "complete"
                /\ timelog[i].at <= timelog[j].at

\* a complete that follows a start, with the clock advanced in between
C4_Witness ==
    \E e \in EmpIds, k \in TaskIds :
        /\ CompletedAfterStart(e, k)
        /\ Len(timelog) = 2
        /\ timelog[1].at < timelog[2].at

\* C5, as stated: start changes a task's status only from todo to
\* in_progress and complete only from in_progress to done.
C5_StatusStateMachine ==
    [][\A k \in TaskIds :
        (TaskRequest(k) /\ tasks[k].exists /\ tasks'[k].status # tasks[k].status) =>
            IF last'.op = "task_start"
            THEN tasks[k].status = "todo" /\ tasks'[k].status = "in_progress"
            ELSE tasks[k].status = "in_progress" /\ tasks'[k].status = "done"]_vars

\* task k is blocked after the step and was not before it
BecomesBlocked(k) ==
    /\ tasks'[k].exists /\ tasks'[k].status = "blocked"
    /\ ~(tasks[k].exists /\ tasks[k].status = "blocked")

\* C6, as stated: a task becomes blocked only through an admin edit of that
\* task, and the status of a task is always one of the four values.
C6_BlockedOnlyByAdminEdit ==
    [][\A k \in TaskIds :
        /\ tasks'[k].exists => tasks'[k].status \in TaskStatuses
        /\ BecomesBlocked(k) =>
              /\ last'.seq # last.seq
              /\ last'.op = "admin_tasks_edit"
              /\ last'.task_id = k]_vars

\* C6, amended: a task becomes blocked only through an admin request below
\* the gate, either the creation of that task with status blocked or an edit
\* of it; employee start and complete never block a task, and the status of
\* a task is always one of the four values.
C6_BlockedOnlyByAdmin ==
    [][\A k \in TaskIds :
        /\ tasks'[k].exists => tasks'[k].status \in TaskStatuses
        /\ BecomesBlocked(k) =>
              /\ last'.seq # last.seq
              /\ last'.op \in {"admin_tasks_new", "admin_tasks_edit"}
              /\ last'.gate = "pass"
              /\ session'.admin_logged_in
              /\ last'.task_id = k]_vars

\* a task was created blocked
C6_Witness ==
    /\ last.op = "admin_tasks_new"
    /\ last.flash = "Task created."
    /\ last.task_id \in TaskIds
    /\ tasks[last.task_id].status = "blocked"

\* C7, as stated: start or complete under an admin session on an existing
\* task assigned to an employee appends the TimeLogEvent and sets the
\* status, as for the owning employee.
C7_AdminTransitionsTask ==
    [][\A k \in TaskIds :
        (/\ TaskRequest(k)
         /\ session'.admin_logged_in
         /\ last'.db = "ok"
         /\ tasks[k].exists
         /\ tasks[k].employee_id # 0) =>
            /\ Len(timelog') = Len(timelog) + 1
            /\ timelog'[Len(timelog')].task_id = k
            /\ timelog'[Len(timelog')].action =
                  (IF last'.op = "task_start" THEN "start" ELSE "complete")
            /\ tasks'[k].status =
                  (IF last'.op = "task_start" THEN "in_progress" ELSE "done")]_vars

\* the conditions of the two gates, spelled on the session keys
HasAdminFlag(sess) == sess.admin_logged_in = TRUE

HasEmployeeLogin(sess) ==
    sess.user_id # 0 /\ (sess.user_role = "employee" \/ sess.user_role = "user")

\* C10: the body of an admin-gated handler runs only with the admin flag,
\* the body of an employee-gated handler only with the admin flag or a user
\* id whose role is employee or user; every other caller is redirected to
\* the login route with the requested path as next and nothing is written;
\* an admin session passes every employee gate.
C10_GatesDecideAccess ==
    [][(last'.seq # last.seq /\ last'.op \in TaskOps \cup AdminTaskOps) =>
        LET admitted == IF last'.op \in AdminTaskOps
                        THEN HasAdminFlag(session')
                        ELSE HasAdminFlag(session') \/ HasEmployeeLogin(session')
        IN  /\ last'.gate = "pass" <=> admitted
            /\ ~admitted =>
                  /\ last'.gate = "redirect"
                  /\ last'.target = Url(IF last'.op \in AdminTaskOps
                                        THEN "admin_login" ELSE "user_login", 0)
                  /\ last'.next = last'.path
                  /\ last'.path # NoUrl
                  /\ tasks' = tasks /\ timelog' = timelog
                  /\ nextTaskId' = nextTaskId /\ authlog' = authlog
            /\ (HasAdminFlag(session') /\ last'.op \in TaskOps) =>
                  last'.gate = "pass"]_vars

\* a signed-in user whose role the employee gate does not admit was sent to
\* the login route
C10_Witness ==
    /\ last.op \in TaskOps
    /\ last.gate = "redirect"
    /\ session.user_id # 0
    /\ session.user_role = "manager"
    /\ last.next = last.path

----------------------------------------------------------------------------
(* Claims about the MDM webhook, checked under SpecActions *)

\* the token the call presents: the header, or the query parameter when the
\* header is absent or empty
PresentedToken(args) ==
    IF args.header = NoToken \/ args.header = <<>> THEN args.query ELSE args.header

\* C11: a POST /hooks/mdm whose token is absent or differs from the
\* configured value, or that arrives while no value is configured, is
\* answered 401 unauthorized and leaves admin_actions unchanged.
C11_BadTokenUnauthorized ==
    [][(/\ Handled("mdm_webhook")
        /\ \/ env.token = NoToken
           \/ env.token = <<>>
           \/ PresentedToken(last'.args) = NoToken
           \/ PresentedToken(last'.args) # env.token) =>
            /\ last'.status = 401
            /\ last'.body = "unauthorized"
            /\ admin_actions' = admin_actions]_vars

\* a call with a wrong token was refused while the table held a record
C11_Witness ==
    /\ last.op = "mdm_webhook"
    /\ last.status = 401
    /\ env.token = <<"s3cret">>
    /\ last.args.header = <<"guess">>
    /\ last.args.query = <<"s3cret">>
    /\ Len(admin_actions) = 1

----------------------------------------------------------------------------
(* The 7-day activity aggregation (GET /my/activity.json) *)

\* clock ticks per calendar day: DATE(at) and utcnow().date() drop the
\* time of day
TicksPerDay == 2

Date(at) == at \div TicksPerDay

\* d.strftime("%Y-%m-%d"), one label per calendar day
strftime(d) == [ymd |-> d]

RECURSIVE SumSeq(_)
SumSeq(q) == IF q = <<>> THEN 0 ELSE Head(q) + SumSeq(Tail(q))

\* the COUNT(*) of the group (day d, action) among the events of emp_id
\* with at >= start_day
GroupCount(log, emp_id, start_day, d, action) ==
    Cardinality({i \in 1..Len(log) :
        /\ log[i].employee_id = emp_id
        /\ log[i].at >= start_day * TicksPerDay
        /\ Date(log[i].at) = d
        /\ log[i].action = action})

my_activity_json_from_yesterday(sess, log, db, at) ==
    LET emp_id == sess.employee_id
        start_day == Date(at) - 7
        days == [i \in 1..7 |-> start_day + (i - 1)]
        count(d, action) ==
            IF db = "ok" THEN GroupCount(log, emp_id, start_day, d, action) ELSE 0
    IN  IF ~get_db_connection(db)
        THEN [status |-> 503, body |-> [error |-> "db_unavailable"]]
        ELSE [status |-> 200,
              body |-> [labels |-> [i \in 1..7 |-> strftime(days[i])],
                        start |-> [i \in 1..7 |-> count(days[i], "start")],
                        complete |-> [i \in 1..7 |-> count(days[i], "complete")]]]

\* my_activity_json below the gate: 503 without a connection; otherwise the
\* 7 labels from today-6 to today with the counts of the rows the query
\* returned, which are none when the query raised an Error
my_activity_json(sess, log, db, at) ==
    LET emp_id == sess.employee_id
        start_day == Date(at) - 6
        days == [i \in 1..7 |-> start_day + (i - 1)]
        count(d, action) ==
            IF db = "ok" THEN GroupCount(log, emp_id, start_day, d, action) ELSE 0
    IN  IF ~get_db_connection(db)
        THEN [status |-> 503, body |-> [error |-> "db_unavailable"]]
        ELSE [status |-> 200,
              body |-> [labels |-> [i \in 1..7 |-> strftime(days[i])],
                        start |-> [i \in 1..7 |-> count(days[i], "start")],
                        complete |-> [i \in 1..7 |-> count(days[i], "complete")]]]

\* timestamps of the events in task_time_logs: a day before the window of
\* every run, two on one day, and a later day
ActivityStamps == {1, 12, 13, 15}

\* the readings of the clock at the request: days 6, 7 and 8
ActivityClock == {13, 15, 16}

ActivityEvents ==
    {TimeLogEvent(e, 1, a, t) : e \in EmpIds, a \in {"start", "complete"}, t \in ActivityStamps}

\* the events were inserted in clock order and none lies after the request
ActivityLogs(at) ==
    {<<>>} \cup {<<x>> : x \in {y \in ActivityEvents : y.at <= at}} \cup
    {q \in {<<x, y>> : x \in ActivityEvents, y \in ActivityEvents} :
        q[1].at <= q[2].at /\ q[2].at <= at}

\* GET /my/activity.json
MyActivityJson ==
    \E s \in ActionSessions :
        IF employee_required(s)
        THEN \E db \in {"ok", "no_conn", "select_error"} :
             \E r \in {my_activity_json(s, timelog, db, now)} :
                /\ session' = s
                /\ last' = [Request("my_activity_json") EXCEPT
                              !.path = Url("/my/activity.json", 0),
                              !.gate = "pass", !.db = db,
                              !.status = r.status, !.body = r.body]
                /\ UNCHANGED <<env, users, authlog, tasks, nextTaskId, timelog, now,
                               started, admin_actions, rows, files,
                       workers, schema>>
        ELSE EmployeeGateRedirect(s, "my_activity_json", Url("/my/activity.json", 0), 0)

InitActivity ==
    /\ env = DefaultEnv
    /\ users = TaskUsers
    /\ session = EmptySession
    /\ authlog = <<>>
    /\ tasks = [k \in TaskIds |-> TaskRow(1, "done", 0)]
    /\ nextTaskId = MaxTasks + 1
    /\ now \in ActivityClock
    /\ timelog \in ActivityLogs(now)
    /\ last = NoRequest
    /\ started = {}
    /\ admin_actions = <<>>
    /\ rows = <<>>
    /\ files = <<>>
    /\ workers = <<>>
    /\ schema = <<>>

NextActivity == MyActivityJson

SpecActivity == InitActivity /\ [][NextActivity]_vars

\* the number of the caller's events whose day lies in the 7 days ending
\* today
EventsInWindow(log, emp_id, today) ==
    Cardinality({i \in 1..Len(log) :
        /\ log[i].employee_id = emp_id
        /\ Date(log[i].at) + 6 >= today
        /\ Date(log[i].at) <= today})

\* the response carries the 7 day labels in ascending order ending today
\* and one start and one complete count per day
SevenDayShape(resp, today) ==
    /\ resp.status = 200
    /\ DOMAIN resp.body = {"labels", "start", "complete"}
    /\ Len(resp.body.labels) = 7
    /\ Len(resp.body.start) = 7
    /\ Len(resp.body.complete) = 7
    /\ \A i \in 1..7 : resp.body.labels[i] = strftime(today + i - 7)

\* C12, as stated: the aggregation returns the 7 labels and counts that sum
\* to the number of the employee's events in the window, for every content
\* of the time log and every outcome of the database access.
C12_SevenDaysAlways ==
    (last.op = "my_activity_json" /\ last.gate = "pass") =>
        /\ SevenDayShape(last, Date(now))
        /\ SumSeq(last.body.start) + SumSeq(last.body.complete) =
              EventsInWindow(timelog, session.employee_id, Date(now))

\* C12, amended: when the query goes through, the aggregation returns the 7
\* labels in ascending order ending today with counts that sum to the
\* number of the employee's events in the window; when the query raises an
\* Error it returns the 7 labels with every count zero; without a database
\* connection it returns 503 db_unavailable and no labels.
C12_SevenDaysWhenQueried ==
    (last.op = "my_activity_json" /\ last.gate = "pass") =>
        /\ last.db = "ok" =>
              /\ SevenDayShape(last, Date(now))
              /\ SumSeq(last.body.start) + SumSeq(last.body.complete) =
                    EventsInWindow(timelog, session.employee_id, Date(now))
        /\ last.db = "select_error" =>
              /\ SevenDayShape(last, Date(now))
              /\ SumSeq(last.body.start) + SumSeq(last.body.complete) = 0
        /\ last.db = "no_conn" =>
              /\ last.status = 503
              /\ last.body = [error |-> "db_unavailable"]

\* an employee with two events on one day of the window and the query
\* working: the day reports both
C12_Witness ==
    /\ last.op = "my_activity_json"
    /\ last.db = "ok"
    /\ last.status = 200
    /\ session.employee_id = 1
    /\ EventsInWindow(timelog, 1, Date(now)) = 2
    /\ \E i \in 1..7 : last.body.start[i] + last.body.complete[i] = 2

----------------------------------------------------------------------------
(* Uploads: the create and edit forms of services, employees and tasks *)

ALLOWED_EXTENSIONS == {"png", "jpg", "jpeg", "gif", "webp"}

\* str.lower() on the extension tokens of the model
lower(tok) ==
    CASE tok = "PNG" -> "png"
      [] tok = "JPG" -> "jpg"
      [] tok = "TXT" -> "txt"
      [] OTHER -> tok

\* the position of the last "." of a filename, 0 when it has none
LastDot(f) ==
    IF \E i \in 1..Len(f) : f[i] = "."
    THEN CHOOSE i \in 1..Len(f) : f[i] = "." /\ \A j \in (i + 1)..Len(f) : f[j] # "."
    ELSE 0

allowed_file_any_extension(filename) == LastDot(filename) > 0

\* allowed_file: "." in filename and filename.rsplit(".", 1)[1].lower() in
\* ALLOWED_EXTENSIONS
allowed_file(filename) ==
    /\ LastDot(filename) > 0
    /\ LET ext == SubSeq(filename, LastDot(filename) + 1, Len(filename))
       IN  Len(ext) = 1 /\ lower(ext[1]) \in ALLOWED_EXTENSIONS

RECURSIVE StripEdge(_)
StripEdge(f) ==
    IF f # <<>> /\ Head(f) \in {".", "_"} THEN StripEdge(Tail(f))
    ELSE IF f # <<>> /\ f[Len(f)] \in {".", "_"} THEN StripEdge(SubSeq(f, 1, Len(f) - 1))
    ELSE f

\* werkzeug's secure_filename: whitespace becomes "_", leading and trailing
\* dots and underscores are stripped
secure_filename(f) == StripEdge([i \in 1..Len(f) |-> IF f[i] = " " THEN "_" ELSE f[i]])

\* os.path.splitext: <<root, ext>>, ext starting with the last dot
splitext(f) ==
    IF LastDot(f) <= 1 THEN <<f, <<>>>>
    ELSE <<SubSeq(f, 1, LastDot(f) - 1), SubSeq(f, LastDot(f), Len(f))>>

\* datetime.utcnow().strftime("%Y%m%d%H%M%S%f"), one token per clock value
StampTokens == <<"t000", "t001", "t002", "t003">>

Stamp(at) == StampTokens[at + 1]

\* f"{name}-{timestamp}{ext}" over the sanitised name
StoredName(filename, at) ==
    LET parts == splitext(secure_filename(filename))
    IN  parts[1] \o <<"-", Stamp(at)>> \o parts[2]

UploadKinds == {"services", "employees", "tasks"}

\* what differs between the three pairs of handlers: routes, template,
\* messages, and the required fields
KindInfo(kind) ==
    CASE kind = "services" ->
            [new |-> "admin_services_new", edit |-> "admin_services_edit",
             list |-> "admin_services_list", form |-> "admin/service_form.html",
             invalid |-> "Invalid image type. Allowed: png, jpg, jpeg, gif, webp",
             required |-> "Title is required.",
             created |-> "Service created.", create_error |-> "Error creating service.",
             updated |-> "Service updated.", update_error |-> "Error updating service."]
      [] kind = "employees" ->
            [new |-> "admin_employees_new", edit |-> "admin_employees_edit",
             list |-> "admin_employees_list", form |-> "admin/employee_form.html",
             invalid |-> "Invalid image type. Allowed: png, jpg, jpeg, gif, webp",
             required |-> "Name and position are required.",
             created |-> "Employee created.", create_error |-> "Error creating employee.",
             updated |-> "Employee updated.", update_error |-> "Error updating employee."]
      [] kind = "tasks" ->
            [new |-> "admin_tasks_new", edit |-> "admin_tasks_edit",
             list |-> "admin_tasks_list", form |-> "admin/task_form.html",
             invalid |-> "Invalid attachment type. Allowed: png, jpg, jpeg, gif, webp",
             required |-> "Title is required.",
             created |-> "Task created.", create_error |-> "Error creating task.",
             updated |-> "Task updated.", update_error |-> "Error updating task."]

\* the form of an upload request: the title (the name, for an employee),
\* the position (read for an employee only) and the filename of the file
\* part, <<>> when no file was chosen
UploadForm(title, position, file) == [title |-> title, position |-> position, file |-> file]

\* "if not title" / "if not name or not position"
MissingRequired(kind, form) ==
    \/ strip(form.title) = <<>>
    \/ kind = "employees" /\ strip(form.position) = <<>>

\* a row as the upload forms see it: its image/photo/attachment reference,
\* <<>> for NULL
UploadRow(ref) == [ref |-> ref]

UploadResult(tbl, dir, flash, target) ==
    [rows |-> tbl, files |-> dir, flash |-> flash, target |-> target]

upload_form_new_row_without_file(kind, tbl, dir, form, db, at) ==
    LET info == KindInfo(kind)
        has_file == form.file # <<>>
        stored == IF has_file THEN StoredName(form.file, at) ELSE <<>>
    IN  IF has_file /\ ~allowed_file(form.file)
        THEN UploadResult(tbl, dir, info.invalid, Url(info.new, 0))
        ELSE IF MissingRequired(kind, form)
        THEN UploadResult(tbl, dir, info.required, Url(info.new, 0))
        ELSE IF ~get_db_connection(db)
        THEN UploadResult(tbl, dir, NoneStr, Url(info.form, 0))
        ELSE IF db = "error"
        THEN UploadResult(tbl, dir, info.create_error, Url(info.form, 0))
        ELSE UploadResult([tbl EXCEPT ![kind] = Append(@, UploadRow(stored))], dir,
                          info.created, Url(info.list, 0))

\* the POST branch shared by admin_services_new, admin_employees_new and
\* admin_tasks_new below the gate: extension check, file.save, required
\* fields, connection, INSERT
upload_form_new(kind, tbl, dir, form, db, at) ==
    LET info == KindInfo(kind)
        has_file == form.file # <<>>
        stored == IF has_file THEN StoredName(form.file, at) ELSE <<>>
        saved == IF has_file THEN Append(dir, stored) ELSE dir
    IN  IF has_file /\ ~allowed_file(form.file)
        THEN UploadResult(tbl, dir, info.invalid, Url(info.new, 0))
        ELSE IF MissingRequired(kind, form)
        THEN UploadResult(tbl, saved, info.required, Url(info.new, 0))
        ELSE IF ~get_db_connection(db)
        THEN UploadResult(tbl, saved, NoneStr, Url(info.form, 0))
        ELSE IF db = "error"
        THEN UploadResult(tbl, saved, info.create_error, Url(info.form, 0))
        ELSE UploadResult([tbl EXCEPT ![kind] = Append(@, UploadRow(stored))], saved,
                          info.created, Url(info.list, 0))

upload_form_edit_always_sets_ref(kind, tbl, dir, id, form, db, at) ==
    LET info == KindInfo(kind)
        has_file == form.file # <<>>
        stored == IF has_file THEN StoredName(form.file, at) ELSE <<>>
        saved == IF has_file THEN Append(dir, stored) ELSE dir
    IN  IF has_file /\ ~allowed_file(form.file)
        THEN UploadResult(tbl, dir, info.invalid, Url(info.edit, id))
        ELSE IF MissingRequired(kind, form)
        THEN UploadResult(tbl, saved, info.required, Url(info.edit, id))
        ELSE IF ~get_db_connection(db)
        THEN UploadResult(tbl, saved, NoneStr, Url(info.list, 0))
        ELSE IF db = "error"
        THEN UploadResult(tbl, saved, info.update_error, Url(info.list, 0))
        ELSE UploadResult(IF id \in 1..Len(tbl[kind])
                          THEN [tbl EXCEPT ![kind][id].ref = stored]
                          ELSE tbl,
                          saved, info.updated, Url(info.list, 0))

\* the POST branch shared by admin_services_edit, admin_employees_edit and
\* admin_tasks_edit below the gate; the UPDATE names the reference column
\* only when a file was saved
upload_form_edit(kind, tbl, dir, id, form, db, at) ==
    LET info == KindInfo(kind)
        has_file == form.file # <<>>
        stored == IF has_file THEN StoredName(form.file, at) ELSE <<>>
        saved == IF has_file THEN Append(dir, stored) ELSE dir
    IN  IF has_file /\ ~allowed_file(form.file)
        THEN UploadResult(tbl, dir, info.invalid, Url(info.edit, id))
        ELSE IF MissingRequired(kind, form)
        THEN UploadResult(tbl, saved, info.required, Url(info.edit, id))
        ELSE IF ~get_db_connection(db)
        THEN UploadResult(tbl, saved, NoneStr, Url(info.list, 0))
        ELSE IF db = "error"
        THEN UploadResult(tbl, saved, info.update_error, Url(info.list, 0))
        ELSE UploadResult(IF id \in 1..Len(tbl[kind]) /\ has_file
                          THEN [tbl EXCEPT ![kind][id].ref = stored]
                          ELSE tbl,
                          saved, info.updated, Url(info.list, 0))

\* what has become of the request's database connection when the handler
\* returns: "none" when none was obtained, "closed" when conn.close() ran,
\* "open" when the handler returned without closing it.  The new handlers
\* and admin_tasks_edit connect after the checks of the form;
\* admin_services_edit and admin_employees_edit connect on entry and return
\* from a failed check of the form without reaching the finally that closes.
connection_at_return(kind, edit, form, db) ==
    LET rejected == (form.file # <<>> /\ ~allowed_file(form.file)) \/ MissingRequired(kind, form)
    IN  IF ~get_db_connection(db) THEN "none"
        ELSE IF edit /\ kind \in {"services", "employees"}
        THEN IF rejected THEN "open" ELSE "closed"
        ELSE IF rejected THEN "none" ELSE "closed"

\* filenames of the file part: none, an image with a blank and an upper-case
\* extension, a text file, a name without extension
UploadFiles ==
    {<<>>, <<"my", " ", "logo", ".", "PNG">>, <<"notes", ".", "txt">>, <<"logo">>}

\* the forms a request to the handlers of a kind can carry; the position is
\* a field of the employee form only
UploadForms(kind) ==
    {UploadForm(title, position, file) :
        title \in {<<"Web">>, <<" ">>},
        position \in IF kind = "employees" THEN {<<"Dev">>, <<" ">>} ELSE {<<"Dev">>},
        file \in UploadFiles}

\* the inputs of an upload request: every form when the database works,
\* with every clock reading when a file is saved; the forms with valid
\* fields when it does not
UploadInputs(kind) ==
    {inp \in {<<f, "ok", t>> : f \in UploadForms(kind), t \in Clock} :
        inp[3] = now \/ allowed_file(inp[1].file)} \cup
    {<<UploadForm(<<"Web">>, <<"Dev">>, file), db, now>> :
        file \in {<<>>, <<"my", " ", "logo", ".", "PNG">>}, db \in DbOutcomes \ {"ok"}}

\* the cookies of the callers of the upload forms: none, and the admin's
UploadSessions == {s \in IssuedSessions : s.user_id = 0}

UploadGateRedirect(s, op, kind, path) ==
    /\ session' = s
    /\ last' = GateRedirect([Request(op) EXCEPT !.path = path, !.args = [kind |-> kind]],
                            "admin_login", "Please log in to access admin.")
    /\ UNCHANGED <<env, users, authlog, tasks, nextTaskId, timelog, now, started,
                   admin_actions, rows, files,
                       workers, schema>>

\* POST /admin/<kind>/new
UploadNew ==
    \E s \in UploadSessions, kind \in UploadKinds :
        IF admin_required(s)
        THEN \E inp \in UploadInputs(kind) :
             \E r \in {upload_form_new(kind, rows, files, inp[1], inp[2], inp[3])} :
                /\ Len(r.rows[kind]) <= MaxRows
                /\ Len(r.files) <= MaxFiles
                /\ session' = s
                /\ rows' = r.rows
                /\ files' = r.files
                /\ now' = inp[3]
                /\ last' = [Request("upload_form_new") EXCEPT
                              !.path = Url("/admin/<kind>/new", 0),
                              !.gate = "pass", !.db = inp[2],
                              !.args = [kind |-> kind, form |-> inp[1],
                                        conn |-> connection_at_return(kind, FALSE, inp[1], inp[2])],
                              !.flash = r.flash, !.target = r.target]
                /\ UNCHANGED <<env, users, authlog, tasks, nextTaskId, timelog, started,
                               admin_actions,
                       workers, schema>>
        ELSE UploadGateRedirect(s, "upload_form_new", kind, Url("/admin/<kind>/new", 0))

\* POST /admin/<kind>/<id>/edit
UploadEdit ==
    \E s \in UploadSessions, kind \in UploadKinds, k \in 1..MaxRows :
        IF admin_required(s)
        THEN \E inp \in UploadInputs(kind) :
             \E r \in {upload_form_edit(kind, rows, files, k, inp[1], inp[2], inp[3])} :
                /\ Len(r.files) <= MaxFiles
                /\ session' = s
                /\ rows' = r.rows
                /\ files' = r.files
                /\ now' = inp[3]
                /\ last' = [Request("upload_form_edit") EXCEPT
                              !.path = Url("/admin/<kind>/<id>/edit", k), !.task_id = k,
                              !.gate = "pass", !.db = inp[2],
                              !.args = [kind |-> kind, form |-> inp[1],
                                        conn |-> connection_at_return(kind, TRUE, inp[1], inp[2])],
                              !.flash = r.flash, !.target = r.target]
                /\ UNCHANGED <<env, users, authlog, tasks, nextTaskId, timelog, started,
                               admin_actions,
                       workers, schema>>
        ELSE UploadGateRedirect(s, "upload_form_edit", kind,
                                Url("/admin/<kind>/<id>/edit", k))

InitUpload ==
    /\ env = DefaultEnv
    /\ users = TaskUsers
    /\ session = EmptySession
    /\ authlog = <<>>
    /\ tasks = [k \in TaskIds |-> NoTask]
    /\ nextTaskId = 1
    /\ timelog = <<>>
    /\ now = 0
    /\ last = NoRequest
    /\ started = {}
    /\ admin_actions = <<>>
    /\ rows = [kind \in UploadKinds |-> <<>>]
    /\ files = <<>>
    /\ workers = <<>>
    /\ schema = <<>>

NextUpload == UploadNew \/ UploadEdit

SpecUpload == InitUpload /\ [][NextUpload]_vars

----------------------------------------------------------------------------
(* Claims about uploads, checked under SpecUpload *)

UploadOps == {"upload_form_new", "upload_form_edit"}

\* the step handles a create or edit form below the gate
UploadRequest ==
    /\ last'.seq # last.seq
    /\ last'.op \in UploadOps
    /\ last'.gate = "pass"

\* C13, as stated: no two accepted uploads, of the same original name or
\* not, are ever stored under the same filename.
C13_StoredNamesDistinct ==
    \A i, j \in 1..Len(files) : i # j => files[i] # files[j]

\* the request carries a file whose extension, lower-cased, is not one of
\* png, jpg, jpeg, gif, webp (a name without "." has no extension)
BadExtension(file) ==
    /\ file # <<>>
    /\ \/ \A i \in 1..Len(file) : file[i] # "."
       \/ \A e \in {"png", "jpg", "jpeg", "gif", "webp"}, u \in {"PNG", "JPG"} :
             file[Len(file)] # e /\ file[Len(file)] # u

\* C14: a create or edit request whose file has an extension outside the
\* allowlist is aborted with the invalid-type message and a redirect back
\* to the form; no row is inserted or updated and no file is stored,
\* whatever the other fields contain.
C14_BadExtensionAborts ==
    [][(UploadRequest /\ BadExtension(last'.args.form.file)) =>
        /\ rows' = rows
        /\ files' = files
        /\ last'.flash \in {"Invalid image type. Allowed: png, jpg, jpeg, gif, webp",
                            "Invalid attachment type. Allowed: png, jpg, jpeg, gif, webp"}
        /\ last'.target.route \in {"admin_services_new", "admin_employees_new",
                                   "admin_tasks_new", "admin_services_edit",
                                   "admin_employees_edit", "admin_tasks_edit"}]_vars

\* a text file was refused on an edit whose other fields were valid, with a
\* row present
C14_Witness ==
    /\ last.op = "upload_form_edit"
    /\ last.gate = "pass"
    /\ last.args.form.file = <<"notes", ".", "txt">>
    /\ last.args.form.title = <<"Web">>
    /\ last.args.form.position = <<"Dev">>
    /\ last.flash = "Invalid attachment type. Allowed: png, jpg, jpeg, gif, webp"
    /\ Len(rows["tasks"]) = 1

\* the request leaves a required field blank
BlankRequired(args) ==
    \/ \A i \in 1..Len(args.form.title) : args.form.title[i] = " "
    \/ /\ args.kind = "employees"
       /\ \A i \in 1..Len(args.form.position) : args.form.position[i] = " "

\* C15, as stated: a create or edit request with a missing required field
\* writes no row and stores no uploaded file, also when it carries a valid
\* image.
C15_MissingFieldPersistsNothing ==
    [][(UploadRequest /\ BlankRequired(last'.args)) =>
        rows' = rows /\ files' = files]_vars

\* the edit request targets an existing row of its kind
EditOfRow(kind, k) ==
    /\ last'.seq # last.seq
    /\ last'.op = "upload_form_edit"
    /\ last'.gate = "pass"
    /\ last'.args.kind = kind
    /\ last'.task_id = k
    /\ k \in 1..Len(rows[kind])

\* C16: an edit that is carried out replaces the stored reference with the
\* name of the newly stored file if and only if the request supplies an
\* accepted file; an edit request without a file never changes the
\* reference, and no edit request changes the reference of another row.
C16_ReferenceReplacedIffFile ==
    [][\A kind \in UploadKinds, k \in 1..MaxRows :
        EditOfRow(kind, k) =>
            LET file == last'.args.form.file
                done == last'.flash \in {"Service updated.", "Employee updated.",
                                         "Task updated."}
            IN  /\ (done /\ file # <<>>) =>
                      /\ files' # files
                      /\ rows'[kind][k].ref = files'[Len(files')]
                      /\ rows'[kind][k].ref # <<>>
                /\ file = <<>> => rows'[kind][k].ref = rows[kind][k].ref
                /\ ~done => rows' = rows
                /\ \A c \in UploadKinds \ {kind} : rows'[c] = rows[c]]_vars

\* an edit with a file went through and the row refers to the file stored
\* by it, the second in the upload directory
C16_Witness ==
    /\ last.op = "upload_form_edit"
    /\ last.gate = "pass"
    /\ last.flash = "Employee updated."
    /\ Len(rows["employees"]) = 1
    /\ last.args.form.file # <<>>
    /\ Len(files) = 2
    /\ rows["employees"][1].ref = files[2]
    /\ files[1] # files[2]

----------------------------------------------------------------------------
(* Sign-in and the audit write, checked under SpecAuth *)

\* the trimmed credentials of the request are the administrator's
AdminCredentials(req) ==
    strip(req.username) = env.user /\ strip(req.password) = env.pass

\* the users rows that the trimmed credentials of the request match: read
\* by a lookup that went through, active, and with a matching hash
MatchingRows(req) ==
    {u \in users : /\ req.db = "ok"
                   /\ u.username = strip(req.username)
                   /\ u.is_active = 1
                   /\ check_password_hash(u.password_hash, strip(req.password))}

\* C17: the outcome of a sign-in or sign-out (session established or not,
\* session contents, redirect target) is decided by the credentials, the
\* users lookup and the session alone: it is the same whether the audit
\* write succeeds, fails or finds no database, and an audit failure never
\* turns a valid sign-in into a failure.
C17_OutcomeIgnoresAudit ==
    [][/\ Handled("signin") =>
            /\ AdminCredentials(last') =>
                  /\ session' = AdminSession
                  /\ last'.target = OrElse(last'.next_url, Url("admin_dashboard", 0))
            /\ (~AdminCredentials(last') /\ MatchingRows(last') # {}) =>
                  /\ \E u \in MatchingRows(last') : session' = UserSession(u)
                  /\ last'.target = OrElse(last'.next_url, Url("my_tasks", 0))
            /\ (~AdminCredentials(last') /\ MatchingRows(last') = {}) =>
                  /\ session' = session
                  /\ last'.target = Url("signin", 0)
       /\ Handled("user_logout") =>
            /\ session' = [session EXCEPT !.user_id = 0, !.user_role = NoneStr,
                                          !.employee_id = 0]
            /\ last'.target = Url("home", 0)
       /\ Handled("admin_logout") =>
            /\ session' = EmptySession
            /\ last'.target = Url("admin_login", 0)]_vars

\* a user signed in with valid credentials while the audit write found no
\* database: the session is established and nothing was logged
C17_Witness ==
    /\ last.op = "signin"
    /\ last.audit = "no_conn"
    /\ last.db = "ok"
    /\ session.user_id = 1
    /\ last.flash = "Logged in."
    /\ authlog = <<>>

\* the response and session of a failed sign-in, the same for every cause
GenericFailure(req) ==
    /\ req.flash = "Invalid credentials."
    /\ req.target = Url("signin", 0)
    /\ req.next = req.next_url

\* C18, as stated: every failed sign-in, whichever check failed, gives the
\* same message and response and appends a login_failure entry with no user
\* id and the admin flag clear.
C18_FailureAlwaysLogged ==
    [][(Handled("signin") /\ ~SignInEstablished(last')) =>
        /\ GenericFailure(last')
        /\ session' = session
        /\ authlog' = Append(authlog, [username |-> strip(last'.username), user_id |-> 0,
                                       is_admin |-> 0, action |-> "login_failure"])]_vars

\* C18, amended: every failed sign-in, whichever check failed, gives the
\* same message and response and leaves the session as it was; when the
\* audit write goes through it appends a login_failure entry with no user
\* id and the admin flag clear, and otherwise it appends nothing.
C18_FailuresIndistinguishable ==
    [][(Handled("signin") /\ ~SignInEstablished(last')) =>
        /\ GenericFailure(last')
        /\ session' = session
        /\ authlog' = IF last'.audit = "ok"
                      THEN Append(authlog, [username |-> strip(last'.username),
                                            user_id |-> 0, is_admin |-> 0,
                                            action |-> "login_failure"])
                      ELSE authlog]_vars

\* the sign-in of an inactive user with the right password was refused
\* with the generic message and logged as a failure without the user's id
C18_Witness ==
    /\ last.op = "signin"
    /\ last.db = "ok"
    /\ last.flash = "Invalid credentials."
    /\ \E u \in users : /\ u.username = strip(last.username)
                        /\ u.is_active = 0
                        /\ check_password_hash(u.password_hash, strip(last.password))
    /\ authlog # <<>>
    /\ authlog[Len(authlog)].action = "login_failure"
    /\ authlog[Len(authlog)].user_id = 0

----------------------------------------------------------------------------
(* The public projects page (GET /projects) *)

\* LIMIT 50
ProjectsLimit == 50

\* the ids of the rows of a SELECT ... WHERE <keep> ORDER BY updated_at DESC:
\* some order of the kept rows in which updated_at never increases
OrderedByUpdate(tbl, keep) ==
    CHOOSE q \in [1..Cardinality(keep) -> keep] :
        /\ \A k \in keep : \E i \in 1..Cardinality(keep) : q[i] = k
        /\ \A i, j \in 1..Cardinality(keep) :
              i < j => tbl[q[i]].updated_at >= tbl[q[j]].updated_at

FirstRows(q, n) == SubSeq(q, 1, IF Len(q) < n THEN Len(q) ELSE n)

projects_all_tasks(tbl, db) ==
    IF db # "ok" THEN <<>>
    ELSE FirstRows(OrderedByUpdate(tbl, {k \in TaskIds : tbl[k].exists}), ProjectsLimit)

\* projects: the rows handed to projects.html, none when there is no
\* connection or the SELECT raises an Error
projects(tbl, db) ==
    IF db # "ok" THEN <<>>
    ELSE FirstRows(OrderedByUpdate(tbl, {k \in TaskIds : tbl[k].exists /\ tbl[k].status = "done"}),
                   ProjectsLimit)

\* GET /projects
Projects ==
    \E db \in DbOutcomes :
        /\ last' = [Request("projects") EXCEPT
                      !.path = Url("/projects", 0), !.db = db,
                      !.target = Url("projects.html", 0),
                      !.status = 200, !.body = projects(tasks, db)]
        /\ UNCHANGED <<env, users, session, authlog, tasks, nextTaskId, timelog, now,
                       started, admin_actions, rows, files,
                       workers, schema>>

\* the tasks table when the run begins: no task, or one in any status,
\* assigned or not
InitProjects ==
    /\ env = DefaultEnv
    /\ users = TaskUsers
    /\ session = EmptySession
    /\ authlog = <<>>
    /\ tasks \in [TaskIds -> {NoTask} \cup
                             {TaskRow(e, st, 0) : e \in {0} \cup EmpIds, st \in TaskStatuses}]
    /\ nextTaskId = MaxTasks + 1
    /\ timelog = <<>>
    /\ now = 0
    /\ last = NoRequest
    /\ started = {}
    /\ admin_actions = <<>>
    /\ rows = <<>>
    /\ files = <<>>
    /\ workers = <<>>
    /\ schema = <<>>

NextProjects == TaskComplete \/ Projects

SpecProjects == InitProjects /\ [][NextProjects]_vars

\* the listing of the step's response holds task k
Listed(k) == \E i \in 1..Len(last'.body) : last'.body[i] = k

----------------------------------------------------------------------------
(* Claim on the responses of mutating requests (SpecActions) *)

\* the mutating requests of the remote-actions console
MutatingActionOps == {"admin_actions_new", "admin_actions_complete"}

\* C20: every mutating admin request that passes the gate ends in a redirect
\* to the listing with a status message set, on success and on every
\* handled failure, also when the database connection cannot be obtained.
C20_MutationAlwaysFlashes ==
    [][(last'.seq # last.seq /\ last'.op \in MutatingActionOps /\ last'.gate = "pass") =>
        /\ last'.target = Url("admin_actions_list", 0)
        /\ last'.flash # NoneStr]_vars

----------------------------------------------------------------------------
(* Claims on the remote-action ledger (SpecActions) *)

TerminalStatuses == {"completed", "failed"}

\* how far along a status is: initiated, then in_progress, then a terminal one
StatusRank(st) == IF st = "initiated" THEN 0 ELSE IF st = "in_progress" THEN 1 ELSE 2

\* C24, as stated: the status of a record only moves forward; a record whose
\* status is completed or failed never changes status again and its end
\* timestamp is never rewritten.
C24_StatusOnlyForward ==
    [][\A i \in 1..Len(admin_actions) :
          /\ i <= Len(admin_actions')
          /\ StatusRank(admin_actions'[i].status) >= StatusRank(admin_actions[i].status)
          /\ admin_actions[i].status \in TerminalStatuses =>
                /\ admin_actions'[i].status = admin_actions[i].status
                /\ admin_actions'[i].ended_at = admin_actions[i].ended_at]_vars

\* C24, amended: a record is never removed and its status never moves back;
\* the only operation that changes a record is the completion endpoint,
\* which sets status completed and a fresh end timestamp whatever the
\* record held, a failed or already completed record included.
C24_OnlyCompletionRewrites ==
    [][\A i \in 1..Len(admin_actions) :
          /\ i <= Len(admin_actions')
          /\ StatusRank(admin_actions'[i].status) >= StatusRank(admin_actions[i].status)
          /\ IF /\ Handled("admin_actions_complete") /\ last'.task_id = i
                /\ last'.flash = "Action marked as completed."
             THEN admin_actions'[i] = [admin_actions[i] EXCEPT !.status = "completed",
                                                              !.ended_at = now + 1]
             ELSE admin_actions'[i] = admin_actions[i]]_vars

\* the completion endpoint has acted on the record the webhook reported as failed
C24_Witness ==
    /\ last.op = "admin_actions_complete"
    /\ last.flash = "Action marked as completed."
    /\ Len(admin_actions) = 1
    /\ admin_actions[1].action = <<"lock">>
    /\ admin_actions[1].status = "completed"

\* C25: in every reachable state a record has an end timestamp if and only
\* if its status is completed or failed.
C25_EndTimeIffTerminal ==
    \A i \in 1..Len(admin_actions) :
        admin_actions[i].ended_at # 0 <=> admin_actions[i].status \in TerminalStatuses

\* C30: when the ledger reports success to its caller (ok from the webhook,
\* 'Admin action logged.' from the admin form) exactly one record has been
\* committed for the request.
C30_SuccessMeansRecorded ==
    [][(\/ Handled("mdm_webhook") /\ last'.status = 200
        \/ Handled("admin_actions_new") /\ last'.flash = "Admin action logged.") =>
            /\ Len(admin_actions') = Len(admin_actions) + 1
            /\ SubSeq(admin_actions', 1, Len(admin_actions)) = admin_actions]_vars

----------------------------------------------------------------------------
(* Claim on the identity held by one browser session (SpecAuth) *)

\* the session holds at most one identity: the admin flag, or the keys of a user
OneIdentity(sess) ==
    sess.admin_logged_in =>
        sess.user_id = 0 /\ sess.user_role = NoneStr /\ sess.employee_id = 0

\* the sessions a successful sign-in can leave
FreshSessions == {AdminSession} \cup {UserSession(u) : u \in users}

\* C29: the session never holds the admin flag together with a user id,
\* role or employee id; a successful sign-in replaces the whole previous
\* identity, and a failed sign-in leaves the session as it was.
C29_OneIdentityPerSession ==
    /\ [](OneIdentity(session))
    /\ [][Handled("signin") =>
            IF GenericFailure(last') THEN session' = session
            ELSE session' \in FreshSessions]_vars

\* an administrator has signed in on a session that held a user's identity,
\* and only the admin flag is left
C29_Witness ==
    /\ last.op = "signin"
    /\ session = AdminSession
    /\ Len(authlog) = 2
    /\ authlog[1].action = "login_success" /\ authlog[1].user_id # 0
    /\ authlog[2].action = "login_success" /\ authlog[2].is_admin = 1

----------------------------------------------------------------------------
(* Claim on the time log (SpecTask) *)

\* the log of the next state is the log with one event appended
GrowsByOne == Len(timelog') = Len(timelog) + 1 /\ SubSeq(timelog', 1, Len(timelog)) = timelog

----------------------------------------------------------------------------
(* Claim on the database connections of the upload forms (SpecUpload) *)

\* C21: every database connection a request opens is closed by the time its
\* response is returned, on every exit path of the handler, the early
\* returns of a failed check of the form included.
C21_NoConnectionLeftOpen ==
    (last.op \in UploadOps /\ last.gate = "pass") => last.args.conn # "open"

----------------------------------------------------------------------------
(* Claim on the order of the file write and the row (SpecUpload) *)

\* the file is in the upload directory
Stored(name) == \E j \in 1..Len(files) : files[j] = name

\* some row refers to the file
Referenced(name) ==
    \E kind \in UploadKinds : \E i \in 1..Len(rows[kind]) : rows[kind][i].ref = name

\* C22: in every reachable state, the states left by a failure of the
\* database or a stop after the file write included, every non-null image,
\* photo or attachment reference of a committed row names a file that is
\* stored.
C22_ReferencedFilesStored ==
    \A kind \in UploadKinds : \A i \in 1..Len(rows[kind]) :
        rows[kind][i].ref # <<>> => Stored(rows[kind][i].ref)

\* a request stored its file and ended before its row was written, leaving
\* an orphan, and the row of another request refers to the file it stored
C22_Witness ==
    /\ \E j \in 1..Len(files) : ~Referenced(files[j])
    /\ \E j \in 1..Len(files) : Referenced(files[j])
    /\ last.op \in UploadOps
    /\ last.gate = "pass"
    /\ last.args.form.file # <<>>

----------------------------------------------------------------------------
(* ensure_auth_logs_table under concurrent callers.  Each worker is one   *)
(* call of log_auth_event that has obtained its connection; the workers   *)
(* interleave statement by statement.  DDL statements are atomic and      *)
(* committed by the server as they complete.                              *)

MaxWorkers == 2

WorkerIds == 1..MaxWorkers

\* auth_logs in the data dictionary: whether the table exists and how many
\* device_type columns it has
Schema(exists, device_type) == [exists |-> exists, device_type |-> device_type]

\* no table yet, a table from before the column was introduced, the table
\* of the CREATE statement
SchemaStates == {Schema(FALSE, 0), Schema(TRUE, 0), Schema(TRUE, 1)}

\* a call that has not begun; exists is the row the SELECT on
\* INFORMATION_SCHEMA.COLUMNS fetched, failed tells that a statement raised
\* for a reason other than the state of the table, dup that the ALTER was
\* refused because the column was there, attempted that the INSERT of
\* log_auth_event was executed
IdleWorker ==
    [pc |-> "idle", exists |-> FALSE, failed |-> FALSE, dup |-> FALSE, attempted |-> FALSE]

\* the auth event the workers log
EnsureEvent == AuthLogEntry("login_failure", <<"alice">>, 0, FALSE)

\* the workers between the first statement of ensure_auth_logs_table and
\* the INSERT of log_auth_event
InFlight == {w \in WorkerIds : workers[w].pc \notin {"idle", "done", "raised"}}

after_alter_error_raises(ok) ==
    IF ok THEN "commit" ELSE "raised"

\* where ensure_auth_logs_table goes on after the SELECT or the ALTER:
\* "except Exception: pass" swallows what they raise, conn.commit() is next
after_alter_error(ok) ==
    "commit"

EnsureUnchanged ==
    UNCHANGED <<env, users, session, tasks, nextTaskId, timelog, now, last, started,
                admin_actions, rows, files>>

\* log_auth_event has its connection and calls ensure_auth_logs_table
EnsureBegin ==
    \E w \in WorkerIds :
        /\ workers[w].pc \in {"idle", "done"}
        /\ Len(authlog) + Cardinality(InFlight) < MaxAuthLog
        /\ workers' = [workers EXCEPT ![w] = [IdleWorker EXCEPT !.pc = "create"]]
        /\ UNCHANGED <<authlog, schema>>
        /\ EnsureUnchanged

\* CREATE TABLE IF NOT EXISTS auth_logs (..., device_type VARCHAR(20) NULL, ...);
\* an Error leaves the function through the outer except
EnsureCreate ==
    \E w \in WorkerIds, ok \in BOOLEAN :
        /\ workers[w].pc = "create"
        /\ schema' = IF ok /\ ~schema.exists THEN Schema(TRUE, 1) ELSE schema
        /\ workers' = [workers EXCEPT ![w].pc = IF ok THEN "select" ELSE "insert",
                                      ![w].failed = ~ok]
        /\ UNCHANGED authlog
        /\ EnsureUnchanged

\* SELECT 1 FROM INFORMATION_SCHEMA.COLUMNS ... COLUMN_NAME = 'device_type'
EnsureSelect ==
    \E w \in WorkerIds, ok \in BOOLEAN :
        /\ workers[w].pc = "select"
        /\ workers' = [workers EXCEPT
                         ![w].exists = ok /\ schema.device_type > 0,
                         ![w].failed = ~ok,
                         ![w].pc = IF ~ok THEN after_alter_error(FALSE)
                                   ELSE IF schema.device_type > 0 THEN "commit" ELSE "alter"]
        /\ UNCHANGED <<authlog, schema>>
        /\ EnsureUnchanged

\* ALTER TABLE auth_logs ADD COLUMN device_type ...: refused with a
\* duplicate-column error when the column is there by now
EnsureAlter ==
    \E w \in WorkerIds, ok \in BOOLEAN :
        /\ workers[w].pc = "alter"
        /\ LET dup == schema.exists /\ schema.device_type > 0
               done == ok /\ schema.exists /\ ~dup
           IN  /\ schema' = IF done THEN Schema(TRUE, schema.device_type + 1) ELSE schema
               /\ workers' = [workers EXCEPT
                                ![w].dup = dup,
                                ![w].failed = ~done /\ ~dup,
                                ![w].pc = after_alter_error(done)]
        /\ UNCHANGED authlog
        /\ EnsureUnchanged

\* conn.commit(); an Error is logged by the outer except and the function returns
EnsureCommit ==
    \E w \in WorkerIds, ok \in BOOLEAN :
        /\ workers[w].pc = "commit"
        /\ workers' = [workers EXCEPT ![w].pc = "insert",
                                      ![w].failed = workers[w].failed \/ ~ok]
        /\ UNCHANGED <<authlog, schema>>
        /\ EnsureUnchanged

\* back in log_auth_event: the INSERT names device_type, so it goes through
\* only on a table that has the column
EnsureInsert ==
    \E w \in WorkerIds, db \in DbOutcomes \ {"no_conn"} :
        /\ workers[w].pc = "insert"
        /\ authlog' = IF schema.exists /\ schema.device_type = 1
                      THEN log_auth_event(authlog, EnsureEvent, db) ELSE authlog
        /\ workers' = [workers EXCEPT ![w].pc = "done", ![w].attempted = TRUE]
        /\ UNCHANGED schema
        /\ EnsureUnchanged

InitEnsure ==
    /\ env = DefaultEnv
    /\ users = TaskUsers
    /\ session = EmptySession
    /\ authlog = <<>>
    /\ tasks = [k \in TaskIds |-> NoTask]
    /\ nextTaskId = 1
    /\ timelog = <<>>
    /\ now = 0
    /\ last = NoRequest
    /\ started = {}
    /\ admin_actions = <<>>
    /\ rows = <<>>
    /\ files = <<>>
    /\ workers = [w \in WorkerIds |-> IdleWorker]
    /\ schema \in SchemaStates

NextEnsure ==
    EnsureBegin \/ EnsureCreate \/ EnsureSelect \/ EnsureAlter \/ EnsureCommit \/ EnsureInsert

SpecEnsure == InitEnsure /\ [][NextEnsure]_vars

\* C23: for any number of repeated or interleaved calls of
\* ensure_auth_logs_table, two callers that both found the device_type
\* column missing included, the table never has more than one device_type
\* column, it exists with exactly one when a call whose statements did not
\* fail for other reasons is over, no call raises to its caller, and the
\* caller goes on to attempt its INSERT.
C23_EnsureIdempotent ==
    /\ schema.device_type <= 1
    /\ \A w \in WorkerIds :
          /\ workers[w].pc # "raised"
          /\ workers[w].pc = "done" => workers[w].attempted
          /\ (workers[w].pc \in {"insert", "done"} /\ ~workers[w].failed) =>
                schema.exists /\ schema.device_type = 1

\* both callers found the column missing, one added it and the ALTER of the
\* other was refused; both went on to their INSERT
C23_Witness ==
    /\ \A w \in WorkerIds : workers[w].pc = "done" /\ ~workers[w].exists /\ ~workers[w].failed
    /\ \E w \in WorkerIds : workers[w].dup
    /\ \E w \in WorkerIds : ~workers[w].dup
    /\ schema = Schema(TRUE, 1)
    /\ Len(authlog) = 2

----------------------------------------------------------------------------
(* task_start and task_complete statement by statement.  Each worker is   *)
(* one employee request that has its connection; its INSERT and UPDATE    *)
(* stay in the transaction of the connection until conn.commit(), and     *)
(* conn.close() without a commit discards them.  Admin edits commit       *)
(* between the statements of the workers.                                  *)

\* an employee request that has not begun; wrote_log and wrote_status tell
\* which statements the open transaction holds
TxnIdle ==
    [pc |-> "idle", op |-> "none", emp_id |-> 0, task_id |-> 0,
     wrote_log |-> FALSE, wrote_status |-> FALSE]

\* what differs between the two handlers
TxnInfo(op) ==
    IF op = "task_start"
    THEN [action |-> "start", status |-> "in_progress",
          okmsg |-> "Task started.", errmsg |-> "Could not start task."]
    ELSE [action |-> "complete", status |-> "done",
          okmsg |-> "Task completed.", errmsg |-> "Could not complete task."]

\* the requests between their SELECT and their response
TxnInFlight == {w \in WorkerIds : workers[w].pc \notin {"idle", "done"}}

close_connection_keeps_insert(log, w) ==
    IF w.wrote_log
    THEN Append(log, TimeLogEvent(w.emp_id, w.task_id, TxnInfo(w.op).action, now))
    ELSE log

\* task_time_logs after conn.close() on a transaction that was not
\* committed: the INSERT it holds is rolled back
close_connection(log, w) ==
    log

TxnUnchanged ==
    UNCHANGED <<env, users, session, authlog, nextTaskId, now, started, admin_actions,
                rows, files, schema>>

\* the handler returns: the response is recorded and the connection closed
TxnRespond(w, flash, target) ==
    /\ workers' = [workers EXCEPT ![w] = [TxnIdle EXCEPT !.pc = "done"]]
    /\ last' = [Request(workers[w].op) EXCEPT
                  !.task_id = workers[w].task_id, !.gate = "pass",
                  !.args = [emp_id |-> workers[w].emp_id, wrote_log |-> workers[w].wrote_log],
                  !.flash = flash, !.target = target]

\* an Error in a statement: except logs and flashes, finally closes
TxnFail(w) ==
    /\ TxnRespond(w, TxnInfo(workers[w].op).errmsg, Url("my_task_detail", workers[w].task_id))
    /\ timelog' = close_connection(timelog, workers[w])
    /\ UNCHANGED tasks

\* an employee's POST has passed the gate and obtained its connection
TxnBegin ==
    \E w \in WorkerIds, e \in EmpIds, op \in {"task_start", "task_complete"}, k \in TaskIds :
        /\ workers[w].pc \in {"idle", "done"}
        /\ Len(timelog) + Cardinality(TxnInFlight) < MaxTimeLog
        /\ workers' = [workers EXCEPT
                         ![w] = [TxnIdle EXCEPT !.pc = "select", !.op = op,
                                                !.emp_id = e, !.task_id = k]]
        /\ UNCHANGED <<tasks, timelog, last>>
        /\ TxnUnchanged

\* SELECT id, employee_id FROM tasks WHERE id=%s and the ownership check
TxnSelect ==
    \E w \in WorkerIds, ok \in BOOLEAN :
        /\ workers[w].pc = "select"
        /\ IF ~ok THEN TxnFail(w)
           ELSE IF ~tasks[workers[w].task_id].exists
                   \/ tasks[workers[w].task_id].employee_id # workers[w].emp_id
           THEN /\ TxnRespond(w, "You don't have access to this task.", Url("my_tasks", 0))
                /\ UNCHANGED <<tasks, timelog>>
           ELSE /\ workers' = [workers EXCEPT ![w].pc = "insert"]
                /\ UNCHANGED <<tasks, timelog, last>>
        /\ TxnUnchanged

\* INSERT INTO task_time_logs (employee_id, task_id, action, at)
TxnInsert ==
    \E w \in WorkerIds, ok \in BOOLEAN :
        /\ workers[w].pc = "insert"
        /\ IF ok /\ tasks[workers[w].task_id].exists
           THEN /\ workers' = [workers EXCEPT ![w].pc = "update", ![w].wrote_log = TRUE]
                /\ UNCHANGED <<tasks, timelog, last>>
           ELSE TxnFail(w)
        /\ TxnUnchanged

\* the row of task k is locked by a transaction other than that of worker w:
\* the INSERT of an event shares a lock on the task row it refers to (the
\* foreign key fk_ttl_task) until its transaction ends, and an UPDATE of the
\* row by another connection waits for it
TxnLocked(k, w) ==
    \E v \in WorkerIds \ {w} : workers[v].task_id = k /\ workers[v].wrote_log

\* UPDATE tasks SET status=%s, updated_at=%s WHERE id=%s
TxnUpdate ==
    \E w \in WorkerIds, ok \in BOOLEAN :
        /\ workers[w].pc = "update"
        /\ ok => ~TxnLocked(workers[w].task_id, w)
        /\ IF ok
           THEN /\ workers' = [workers EXCEPT ![w].pc = "commit", ![w].wrote_status = TRUE]
                /\ UNCHANGED <<tasks, timelog, last>>
           ELSE TxnFail(w)
        /\ TxnUnchanged

\* conn.commit(): the INSERT and the UPDATE become visible together
TxnCommit ==
    \E w \in WorkerIds, ok \in BOOLEAN :
        /\ workers[w].pc = "commit"
        /\ IF ok
           THEN LET me == workers[w]
                    info == TxnInfo(me.op)
                IN  /\ timelog' = Append(timelog,
                                         TimeLogEvent(me.emp_id, me.task_id, info.action, now))
                    /\ tasks' = [tasks EXCEPT ![me.task_id].status = info.status,
                                              ![me.task_id].updated_at = now]
                    /\ TxnRespond(w, info.okmsg, Url("my_task_detail", me.task_id))
           ELSE TxnFail(w)
        /\ TxnUnchanged

\* an admin's POST /admin/tasks/<k>/edit that reassigns the task, from its
\* UPDATE to its commit
TxnAdminEdit ==
    \E k \in TaskIds, e \in EmpIds :
        /\ ~TxnLocked(k, 0)
        /\ tasks[k].exists /\ tasks[k].employee_id # e
        /\ LET r == admin_tasks_edit(tasks, k, TaskForm(<<"Migrate DB">>, e, tasks[k].status),
                                     "ok", now)
           IN  /\ tasks' = r.tasks
               /\ last' = [Request("admin_tasks_edit") EXCEPT
                             !.path = Url("/admin/tasks/<id>/edit", k), !.task_id = k,
                             !.gate = "pass", !.db = "ok",
                             !.flash = r.flash, !.target = r.target]
        /\ UNCHANGED <<timelog, workers>>
        /\ TxnUnchanged

InitTxn ==
    /\ env = DefaultEnv
    /\ users = TaskUsers
    /\ session = EmptySession
    /\ authlog = <<>>
    /\ tasks \in [TaskIds -> {TaskRow(e, st, 0) : e \in EmpIds, st \in {"todo", "in_progress"}}]
    /\ nextTaskId = MaxTasks + 1
    /\ timelog = <<>>
    /\ now = 0
    /\ last = NoRequest
    /\ started = {}
    /\ admin_actions = <<>>
    /\ rows = <<>>
    /\ files = <<>>
    /\ workers = [w \in WorkerIds |-> TxnIdle]
    /\ schema = <<>>

NextTxn == TxnBegin \/ TxnSelect \/ TxnInsert \/ TxnUpdate \/ TxnCommit \/ TxnAdminEdit

SpecTxn == InitTxn /\ [][NextTxn]_vars

\* the step is the response of an employee request that went through
TxnSucceeded ==
    /\ last'.seq # last.seq
    /\ last'.op \in {"task_start", "task_complete"}
    /\ last'.flash \in {"Task started.", "Task completed."}

\* C27: an employee's start or complete changes the task's status and
\* appends a TimeLogEvent only if the task is assigned to that employee at
\* the moment the change is committed, whatever admin edit is interleaved.
C27_OwnerAtCommit ==
    [][TxnSucceeded => tasks[last'.task_id].employee_id = last'.args.emp_id]_vars

\* C28: the TimeLogEvent insert and the status update of start and of
\* complete take effect together or not at all: the response of a
\* successful request is the one step that appends an event, it sets the
\* status with it, and a request that ends in an error leaves neither.
C28_InsertAndUpdateAtomic ==
    [][IF TxnSucceeded
       THEN /\ GrowsByOne
            /\ timelog'[Len(timelog')].task_id = last'.task_id
            /\ timelog'[Len(timelog')].action =
                  (IF last'.op = "task_start" THEN "start" ELSE "complete")
            /\ tasks'[last'.task_id].status =
                  (IF last'.op = "task_start" THEN "in_progress" ELSE "done")
       ELSE /\ timelog' = timelog
            /\ \A k \in TaskIds : tasks'[k].status = tasks[k].status]_vars

\* a request whose INSERT had been executed ended in an error, and the
\* committed tables hold neither its event nor its status
C28_Witness ==
    /\ last.op = "task_start"
    /\ last.gate = "pass"
    /\ last.flash = "Could not start task."
    /\ last.args.wrote_log
    /\ timelog = <<>>
    /\ \A k \in TaskIds : tasks[k].status = "todo"
====
